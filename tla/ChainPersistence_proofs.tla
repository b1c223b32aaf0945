----------------------- MODULE ChainPersistence_proofs ----------------------
(***************************************************************************)
(* Proofs about ChainPersistence: for any members, links and chain         *)
(* objects, every update of a loaded chain is committed or under way, and  *)
(* the stored chain loses links only to another object or to a save that   *)
(* is committed late.                                                      *)
(*                                                                         *)
(* The argument for the second: what one object saves is nested, for its   *)
(* chain only grows (Nested); until a process has committed a save, all    *)
(* that it works on was read from the row as it is (FromRow).              *)
(*                                                                         *)
(* A link that has settled stays so: whatever is saved, loaded or sent is  *)
(* then made of chains that have it (SettledStays).                        *)
(***************************************************************************)
EXTENDS ChainPersistence, TLAPS

(* EveryUpdateIsWritten, link by link.                                     *)
Covered ==
  \A i \in Chain : chain[i].saving =>
    \A l \in chain[i].links :
      \/ l \in chain[i].loaded
      \/ l \in written[i]
      \/ \E w \in saves : w.by = i /\ l \in w.links

(* Nothing is loaded or saved before there is a row.                       *)
Started ==
  ~stored =>
    /\ row = {} /\ rowOf = NoChain /\ saves = {}
    /\ \A i \in Chain : ~chain[i].saving
    /\ \A m \in Member : handler[m].pc \notin {"reading", "keys"}

(* Whatever refers to a chain object refers to one that was made.          *)
InUse ==
  /\ \A m \in Member : conn[m] # NoChain => chain[conn[m]].used
  /\ cached # NoChain => chain[cached].used
  /\ \A w \in saves : chain[w.by].used
  /\ rowOf # NoChain => chain[rowOf].used
  /\ \A i \in Chain : chain[i].saving => chain[i].used

Comparable(x, y) == x \subseteq y \/ y \subseteq x

Nested ==
  /\ \A w \in saves : w.links \subseteq chain[w.by].links
  /\ \A w, v \in saves : w.by = v.by => Comparable(w.links, v.links)
  /\ rowOf # NoChain =>
       /\ row \subseteq chain[rowOf].links
       /\ \A w \in saves : w.by = rowOf => Comparable(row, w.links)

FromRow ==
  rowOf = NoChain =>
    /\ \A m \in Member : handler[m].pc = "keys" => row \subseteq handler[m].links
    /\ \A i \in Chain : chain[i].saving => row \subseteq chain[i].links
    /\ \A w \in saves : row \subseteq w.links

(* What the row's history depends on.                                      *)
RowInv == Started /\ InUse /\ Nested /\ FromRow

IInv == TypeOK /\ Covered /\ RowInv

-----------------------------------------------------------------------------
LEMMA CoveredSuffices ==
  ASSUME TypeOK, Covered
  PROVE  EveryUpdateIsWritten
<1> SUFFICES ASSUME NEW i \in Chain, chain[i].saving, NEW l \in chain[i].links,
                    l \notin chain[i].loaded, l \notin written[i]
             PROVE  l \in Pending(i)
  BY DEF EveryUpdateIsWritten
<1>1. PICK w \in saves : w.by = i /\ l \in w.links
  BY DEF Covered
<1> QED BY <1>1 DEF Pending

LEMMA InitIInv == Init => IInv
<1> SUFFICES ASSUME Init PROVE IInv
  OBVIOUS
<1>1. TypeOK
  BY DEF Init, TypeOK, NoChains, Unused, NoConns, NoHandlers, Idle, NoneWritten
<1>2. /\ \A i \in Chain : chain[i] = Unused
      /\ \A m \in Member : conn[m] = NoChain /\ handler[m] = Idle
  BY DEF Init, NoChains, NoConns, NoHandlers
<1>3. Covered /\ RowInv
  BY <1>2 DEF Init, Covered, RowInv, Started, InUse, Nested, FromRow, Unused, Idle
<1> QED BY <1>1, <1>3 DEF IInv

(* A step that makes and changes no chain object, saves nothing and leaves *)
(* the table alone.                                                        *)
LEMMA QuietKeeps ==
  ASSUME IInv, TypeOK', UNCHANGED <<table, chain, saves, history>>,
         \A m \in Member : \/ conn'[m] \in {conn[m], NoChain}
                           \/ conn'[m] = cached,
         cached' \in {cached, NoChain},
         \A m \in Member :
           handler'[m].pc \in {"reading", "keys"} =>
             /\ stored
             /\ \/ handler'[m].pc = "reading"
                \/ handler'[m].links = row
                \/ handler'[m] = handler[m]
  PROVE  IInv'
<1>1. Covered'
  BY DEF IInv, Covered, history
<1>2. Started'
  BY DEF IInv, RowInv, Started, table, history
<1>3. InUse'
  BY DEF IInv, RowInv, InUse, history
<1>4. Nested'
  BY DEF IInv, RowInv, Nested, Comparable, table, history
<1>5. FromRow'
  BY DEF IInv, RowInv, FromRow, table, history
<1> QED BY <1>1, <1>2, <1>3, <1>4, <1>5 DEF IInv, RowInv

LEMMA AddCommunityKeeps == IInv /\ AddCommunity => IInv'
<1> SUFFICES ASSUME IInv, AddCommunity PROVE IInv'
  OBVIOUS
<1> USE ChainAssumption DEF AddCommunity, IInv, history
<1>1. TypeOK'
  <2>1. handler' \in [Member -> [pc : {"idle", "created", "reading", "keys"},
                                 signIn : BOOLEAN, links : SUBSET Link]]
    <3>1. CASE UNCHANGED handler
      BY <3>1 DEF TypeOK
    <3>2. CASE ~UNCHANGED handler
      <4> DEFINE h == [pc |-> "created", signIn |-> TRUE,
                       links |-> known[Founder]]
      <4>1. handler' = [handler EXCEPT ![Founder] = h]
        BY <3>2
      <4>2. h \in [pc : {"idle", "created", "reading", "keys"},
                   signIn : BOOLEAN, links : SUBSET Link]
        BY DEF TypeOK
      <4> QED BY <4>1, <4>2 DEF TypeOK
    <3> QED BY <3>1, <3>2
  <2> QED BY <2>1 DEF TypeOK
<1>2. \A m \in Member : handler'[m].pc \notin {"reading", "keys"}
  BY DEF RowInv, Started, TypeOK
<1>3. Covered'
  BY DEF Covered
<1>4. Started' /\ InUse'
  BY DEF RowInv, Started, InUse
<1>5. Nested'
  BY DEF RowInv, Started, Nested, Comparable
<1>6. FromRow'
  BY <1>2 DEF RowInv, Started, FromRow
<1> QED BY <1>1, <1>3, <1>4, <1>5, <1>6 DEF RowInv

(* A chain object is made, of the row as a load read it or by create().    *)
LEMMA NewChainKeeps ==
  ASSUME IInv, TypeOK', NEW i \in Chain, NEW m \in Member,
         NEW saving \in BOOLEAN,
         NewChain(i, handler[m].links, saving),
         saving => handler[m].pc = "keys",
         conn' \in {conn, [conn EXCEPT ![m] = i]},
         handler' = [handler EXCEPT ![m] = Idle],
         UNCHANGED <<known, table, saves, history>>
  PROVE  IInv'
<1> DEFINE new == [links |-> handler[m].links, loaded |-> handler[m].links,
                   saving |-> saving, used |-> TRUE]
<1>1. /\ chain' = [chain EXCEPT ![i] = new] /\ ~chain[i].used /\ cached' = i
  BY DEF NewChain
<1>2. /\ chain'[i] = new
      /\ \A j \in Chain : j # i => chain'[j] = chain[j]
  BY <1>1 DEF IInv, TypeOK
<1>3. \A n \in Member : handler'[n] = Idle \/ handler'[n] = handler[n]
  BY DEF IInv, TypeOK
<1>4. \A n \in Member : conn'[n] = i \/ conn'[n] = conn[n]
  BY DEF IInv, TypeOK
<1>5. i # NoChain /\ \A w \in saves : w.by \in Chain /\ w.by # i
  BY <1>1, ChainAssumption DEF IInv, TypeOK, RowInv, InUse
<1>6. Covered'
  <2>1. \A l \in chain'[i].links : l \in chain'[i].loaded
    BY <1>2
  <2> QED BY <1>2, <2>1 DEF IInv, Covered, history
<1>7. Started'
  <2> SUFFICES ASSUME ~stored' PROVE Started'
    BY DEF Started
  <2>1. ~stored /\ ~saving
    BY DEF IInv, RowInv, Started, table
  <2>2. \A j \in Chain : ~chain'[j].saving
    BY <1>2, <2>1 DEF IInv, RowInv, Started
  <2>3. \A n \in Member : handler'[n].pc \notin {"reading", "keys"}
    BY <1>3, <2>1 DEF IInv, RowInv, Started, Idle
  <2> QED BY <2>1, <2>2, <2>3 DEF IInv, RowInv, Started, table, history
<1>8. InUse'
  <2>1. \A n \in Member : conn'[n] # NoChain => chain'[conn'[n]].used
    BY <1>2, <1>4 DEF IInv, TypeOK, RowInv, InUse
  <2>2. chain'[cached'].used
    BY <1>1, <1>2
  <2>3. \A w \in saves : chain'[w.by].used
    BY <1>2, <1>5 DEF IInv, RowInv, InUse
  <2>4. rowOf # NoChain => chain'[rowOf].used
    BY <1>2 DEF IInv, TypeOK, RowInv, InUse
  <2>5. \A j \in Chain : chain'[j].saving => chain'[j].used
    BY <1>2 DEF IInv, RowInv, InUse
  <2> QED BY <2>1, <2>2, <2>3, <2>4, <2>5 DEF InUse, history
<1>9. Nested'
  <2>1. \A w \in saves : chain'[w.by] = chain[w.by]
    BY <1>2, <1>5
  <2>2. rowOf # NoChain => chain'[rowOf] = chain[rowOf]
    BY <1>1, <1>2 DEF IInv, TypeOK, RowInv, InUse
  <2> QED BY <2>1, <2>2 DEF IInv, RowInv, Nested, Comparable, table, history
<1>10. FromRow'
  <2> SUFFICES ASSUME rowOf = NoChain PROVE FromRow'
    BY DEF FromRow, history
  <2>1. \A n \in Member :
          handler'[n].pc = "keys" => row \subseteq handler'[n].links
    BY <1>3 DEF IInv, RowInv, FromRow, Idle
  <2>2. \A j \in Chain : chain'[j].saving => row \subseteq chain'[j].links
    BY <1>2 DEF IInv, RowInv, FromRow
  <2> QED BY <2>1, <2>2 DEF IInv, RowInv, FromRow, table, history
<1> QED BY <1>6, <1>7, <1>8, <1>9, <1>10 DEF IInv, RowInv

LEMMA ReceiveKeeps ==
  ASSUME IInv, NEW m \in Member, Receive(m)
  PROVE  IInv'
<1> DEFINE i == conn[m]
           merged == chain[i].links \cup known[m]
           w0 == [by |-> i, links |-> merged]
<1>1. /\ i \in Chain
      /\ chain' = [chain EXCEPT ![i].links = merged]
      /\ saves' = IF chain[i].saving THEN saves \cup {w0} ELSE saves
      /\ UNCHANGED <<known, table, cached, conn, handler, history>>
  BY DEF Receive, Merged, IInv, TypeOK
<1>2. TypeOK'
  BY <1>1 DEF IInv, TypeOK, table, history
<1>3. /\ chain'[i] = [chain[i] EXCEPT !.links = merged]
      /\ chain'[i].links = merged /\ chain'[i].loaded = chain[i].loaded
      /\ chain'[i].saving = chain[i].saving /\ chain'[i].used = chain[i].used
      /\ \A j \in Chain : j # i => chain'[j] = chain[j]
  BY <1>1 DEF IInv, TypeOK
<1>4. /\ saves \subseteq saves'
      /\ \A w \in saves' : w \in saves \/ (w = w0 /\ chain[i].saving)
      /\ chain[i].saving => w0 \in saves'
      /\ w0.by = i /\ w0.links = merged
  BY <1>1
<1>5. chain[i].links \subseteq merged
  OBVIOUS
<1> HIDE DEF i, merged, w0
<1>6. Covered'
  <2> SUFFICES ASSUME NEW j \in Chain, chain'[j].saving,
                      NEW l \in chain'[j].links, l \notin chain'[j].loaded,
                      l \notin written[j]
               PROVE  \E w \in saves' : w.by = j /\ l \in w.links
    BY <1>1 DEF Covered, history
  <2>1. CASE j = i
    BY <2>1, <1>3, <1>4
  <2>2. CASE j # i
    BY <2>2, <1>3, <1>4 DEF IInv, Covered
  <2> QED BY <2>1, <2>2
<1>7. Started'
  BY <1>1, <1>3 DEF IInv, RowInv, Started, table, history
<1>8. \A j \in Chain : chain[j].used => chain'[j].used
  BY <1>3
<1>9. InUse'
  <2>1. \A w \in saves' : chain'[w.by].used
    BY <1>1, <1>3, <1>4, <1>8 DEF IInv, TypeOK, RowInv, InUse
  <2>2. \A j \in Chain : chain'[j].saving => chain'[j].used
    BY <1>3 DEF IInv, RowInv, InUse
  <2> QED BY <1>1, <1>8, <2>1, <2>2 DEF IInv, TypeOK, RowInv, InUse, history
<1>10. \A j \in Chain : chain[j].links \subseteq chain'[j].links
  BY <1>3, <1>5
<1>11. Nested'
  <2>1. \A w \in saves' : w.links \subseteq chain'[w.by].links
    BY <1>3, <1>4, <1>10 DEF IInv, TypeOK, RowInv, Nested
  <2>2. \A w \in saves : w.by = i => w.links \subseteq merged
    BY <1>5 DEF IInv, RowInv, Nested
  <2>3. \A w, v \in saves' : w.by = v.by => Comparable(w.links, v.links)
    BY <1>4, <2>2 DEF IInv, RowInv, Nested, Comparable
  <2>4. ASSUME rowOf # NoChain
        PROVE  /\ row \subseteq chain'[rowOf].links
               /\ \A w \in saves' : w.by = rowOf => Comparable(row, w.links)
    <3>1. row \subseteq chain[rowOf].links /\ rowOf \in Chain
      BY <2>4 DEF IInv, TypeOK, RowInv, Nested
    <3>2. rowOf = i => row \subseteq merged
      BY <3>1, <1>5
    <3> QED BY <2>4, <3>1, <3>2, <1>4, <1>10 DEF IInv, RowInv, Nested, Comparable
  <2> QED BY <1>1, <2>1, <2>3, <2>4 DEF Nested, table, history
<1>12. FromRow'
  <2> SUFFICES ASSUME rowOf = NoChain PROVE FromRow'
    BY <1>1 DEF FromRow, history
  <2>1. \A j \in Chain : chain'[j].saving => row \subseteq chain'[j].links
    BY <1>3, <1>10 DEF IInv, RowInv, FromRow
  <2>2. \A w \in saves' : row \subseteq w.links
    BY <1>1, <1>4, <1>5 DEF IInv, RowInv, FromRow
  <2> QED BY <1>1, <2>1, <2>2 DEF IInv, RowInv, FromRow, table, history
<1> QED BY <1>2, <1>6, <1>7, <1>9, <1>11, <1>12 DEF IInv, RowInv

LEMMA CommitSaveKeeps ==
  ASSUME IInv, NEW w0 \in saves, CommitSave(w0)
  PROVE  IInv'
<1>1. /\ saves' = saves \ {w0} /\ row' = w0.links /\ rowOf' = w0.by
      /\ written' = [written EXCEPT ![w0.by] = @ \cup w0.links]
      /\ UNCHANGED <<known, stored, chain, cached, conn, handler>>
      /\ w0.by \in Chain /\ w0.links \subseteq Link
  BY DEF CommitSave, Commit, IInv, TypeOK
<1>2. TypeOK'
  BY <1>1 DEF IInv, TypeOK
<1>3. /\ w0.links \subseteq written'[w0.by]
      /\ \A j \in Chain : written[j] \subseteq written'[j]
  BY <1>1 DEF IInv, TypeOK
<1>4. Covered'
  <2> SUFFICES ASSUME NEW j \in Chain, chain[j].saving,
                      NEW l \in chain[j].links, l \notin chain[j].loaded,
                      l \notin written'[j]
               PROVE  \E w \in saves' : w.by = j /\ l \in w.links
    BY <1>1 DEF Covered
  <2>1. PICK w \in saves : w.by = j /\ l \in w.links
    BY <1>3 DEF IInv, Covered
  <2>2. w # w0
    BY <1>3, <2>1
  <2> QED BY <1>1, <2>1, <2>2
<1>5. Started'
  BY <1>1 DEF IInv, RowInv, Started
<1>6. InUse'
  BY <1>1 DEF IInv, RowInv, InUse
<1>7. Nested'
  BY <1>1 DEF IInv, RowInv, Nested, Comparable
<1>8. FromRow'
  BY <1>1, ChainAssumption DEF FromRow
<1> QED BY <1>2, <1>4, <1>5, <1>6, <1>7, <1>8 DEF IInv, RowInv

LEMMA FreshKeeps ==
  ASSUME IInv, Fresh, known' = known, stored' = stored, row' \subseteq Link,
         stored \/ row' = {}
  PROVE  IInv'
<1>1. TypeOK'
  BY DEF Fresh, IInv, TypeOK, NoChains, Unused, NoConns, NoHandlers, Idle,
         NoneWritten
<1>2. /\ \A i \in Chain : chain'[i] = Unused
      /\ \A m \in Member : conn'[m] = NoChain /\ handler'[m] = Idle
      /\ cached' = NoChain /\ saves' = {} /\ rowOf' = NoChain
  BY DEF Fresh, NoChains, NoConns, NoHandlers
<1>3. Covered' /\ RowInv'
  BY <1>2 DEF Covered, RowInv, Started, InUse, Nested, FromRow, Unused, Idle
<1> QED BY <1>1, <1>3 DEF IInv

LEMMA NextIInv == IInv /\ [Next]_vars => IInv'
<1> SUFFICES ASSUME IInv, [Next]_vars PROVE IInv'
  OBVIOUS
<1> USE ChainAssumption
<1>1. CASE AddCommunity
  BY <1>1, AddCommunityKeeps
<1>2. CASE FinishCreate
  <2>1. PICK i \in Chain :
          NewChain(i, handler[Founder].links, FALSE)
          /\ conn' = [conn EXCEPT ![Founder] = i]
    BY <1>2 DEF FinishCreate
  <2>2. TypeOK'
    BY <1>2, <2>1
      DEF FinishCreate, NewChain, IInv, TypeOK, Idle, table, history
  <2> QED BY <1>2, <2>1, <2>2, NewChainKeeps DEF FinishCreate
<1>3. CASE \E m \in Member : FinishLoad(m)
  <2>1. PICK m \in Member, i \in Chain :
          /\ FinishLoad(m) /\ NewChain(i, handler[m].links, TRUE)
          /\ conn' \in {conn, [conn EXCEPT ![m] = i]}
    BY <1>3 DEF FinishLoad
  <2>2. TypeOK'
    BY <2>1 DEF FinishLoad, NewChain, IInv, TypeOK, Idle, table, history
  <2> QED BY <2>1, <2>2, NewChainKeeps DEF FinishLoad
<1>4. CASE \E m \in Member : Receive(m)
  BY <1>4, ReceiveKeeps
<1>5. CASE Evict
  <2>1. TypeOK'
    BY <1>5 DEF Evict, IInv, TypeOK, table, history
  <2> QED BY <1>5, <2>1, QuietKeeps
        DEF Evict, IInv, RowInv, Started
<1>6. CASE \E m \in Member : SignIn(m) \/ Disconnect(m)
  <2>1. TypeOK'
    BY <1>6 DEF SignIn, Disconnect, IInv, TypeOK, table, history
  <2>2. \A m \in Member : conn'[m] \in {conn[m], NoChain, cached}
    BY <1>6 DEF SignIn, Disconnect, IInv, TypeOK
  <2> QED BY <1>6, <2>1, <2>2, QuietKeeps
        DEF SignIn, Disconnect, IInv, RowInv, Started
<1>7. CASE \E m \in Member : BeginLoad(m) \/ ReadRow(m) \/ FailLoad(m)
  <2>1. PICK m \in Member : BeginLoad(m) \/ ReadRow(m) \/ FailLoad(m)
    BY <1>7
  <2>2. \E h \in [pc : {"idle", "created", "reading", "keys"},
                 signIn : BOOLEAN, links : SUBSET Link] :
          /\ handler' = [handler EXCEPT ![m] = h]
          /\ h.pc \in {"reading", "keys"} =>
               stored /\ (h.pc = "reading" \/ h.links = row)
    <3>1. CASE BeginLoad(m)
      <4>1. PICK signIn \in BOOLEAN :
              handler' = [handler EXCEPT ![m] =
                            [Idle EXCEPT !.pc = "reading", !.signIn = signIn]]
        BY <3>1 DEF BeginLoad
      <4> DEFINE h == [Idle EXCEPT !.pc = "reading", !.signIn = signIn]
      <4>2. /\ h \in [pc : {"idle", "created", "reading", "keys"},
                      signIn : BOOLEAN, links : SUBSET Link]
            /\ h.pc = "reading"
        BY DEF Idle
      <4> QED BY <3>1, <4>1, <4>2 DEF BeginLoad
    <3>2. CASE ReadRow(m)
      <4> DEFINE h == [handler[m] EXCEPT !.pc = "keys", !.links = row]
      <4>1. handler' = [handler EXCEPT ![m] = h]
        BY <3>2 DEF ReadRow, IInv, TypeOK
      <4>2. stored
        BY <3>2 DEF ReadRow, IInv, RowInv, Started
      <4>3. /\ h \in [pc : {"idle", "created", "reading", "keys"},
                      signIn : BOOLEAN, links : SUBSET Link]
            /\ h.links = row
        BY DEF IInv, TypeOK
      <4> QED BY <4>1, <4>2, <4>3
    <3>3. CASE FailLoad(m)
      <4>1. /\ Idle \in [pc : {"idle", "created", "reading", "keys"},
                         signIn : BOOLEAN, links : SUBSET Link]
            /\ Idle.pc = "idle"
        BY DEF Idle
      <4>2. handler' = [handler EXCEPT ![m] = Idle]
        BY <3>3 DEF FailLoad
      <4> QED BY <4>1, <4>2
    <3> QED BY <2>1, <3>1, <3>2, <3>3
  <2>3. /\ \A n \in Member : n # m => handler'[n] = handler[n]
        /\ UNCHANGED <<known, table, chain, saves, history, conn, cached>>
    BY <2>1, <2>2 DEF BeginLoad, ReadRow, FailLoad, IInv, TypeOK
  <2>4. handler'[m].pc \in {"reading", "keys"} =>
          /\ stored
          /\ handler'[m].pc = "reading" \/ handler'[m].links = row
    BY <2>2 DEF IInv, TypeOK
  <2>5. TypeOK'
    BY <2>2, <2>3 DEF IInv, TypeOK, table, history
  <2>6. \A n \in Member : handler[n].pc \in {"reading", "keys"} => stored
    BY DEF IInv, RowInv, Started
  <2> QED BY <2>3, <2>4, <2>5, <2>6, QuietKeeps
<1>8. CASE \E m \in Member : Send(m) \/ \E l \in Link : MakeLink(m, l)
  <2>1. known' \in [Member -> SUBSET Link]
    <3>1. ASSUME NEW m \in Member, Send(m) PROVE known' \in [Member -> SUBSET Link]
      <4>1. chain[conn[m]].links \subseteq Link
        BY <3>1 DEF Send, IInv, TypeOK
      <4> QED BY <3>1, <4>1 DEF Send, IInv, TypeOK
    <3>2. ASSUME NEW m \in Member, NEW l \in Link, MakeLink(m, l)
          PROVE  known' \in [Member -> SUBSET Link]
      BY <3>2 DEF MakeLink, IInv, TypeOK
    <3> QED BY <1>8, <3>1, <3>2
  <2>2. TypeOK'
    BY <1>8, <2>1 DEF Send, MakeLink, IInv, TypeOK, table, history
  <2> QED BY <1>8, <2>2, QuietKeeps
        DEF Send, MakeLink, IInv, RowInv, Started
<1>9. CASE \E w \in saves : CommitSave(w)
  BY <1>9, CommitSaveKeeps
<1>10. CASE Restart
  BY <1>10, FreshKeeps DEF Restart, IInv, TypeOK, RowInv, Started, table
<1>11. CASE \E w \in saves : FailSave(w)
  BY <1>11, FreshKeeps DEF FailSave, IInv, TypeOK, RowInv, Started
<1>12. CASE UNCHANGED vars
  <2>1. TypeOK'
    BY <1>12 DEF vars, IInv, TypeOK, table, history
  <2> QED BY <1>12, <2>1, QuietKeeps DEF vars, IInv, RowInv, Started
<1> QED BY <1>1, <1>2, <1>3, <1>4, <1>5, <1>6, <1>7, <1>8, <1>9, <1>10,
           <1>11, <1>12 DEF Next

LEMMA Invariance == Spec => []IInv
<1> QED BY InitIInv, NextIInv, PTL DEF Spec

-----------------------------------------------------------------------------
(* A step that makes no chain object and changes no chain's links.         *)
LEMMA QuietSettles ==
  ASSUME NEW l, Settled(l), UNCHANGED <<table, chain>>, saves' \subseteq saves,
         cached' \in {cached, NoChain},
         \A m \in Member : conn'[m] \in {conn[m], NoChain, cached},
         \A m \in Member :
           handler'[m].pc \in {"created", "keys"} =>
             handler'[m].links = row \/ handler'[m] = handler[m]
  PROVE  Settled(l)'
  BY DEF Settled, table

(* A chain object is made of what a handler has.                           *)
LEMMA NewChainSettles ==
  ASSUME TypeOK, NEW l, Settled(l), NEW i \in Chain, NEW m \in Member,
         NEW saving \in BOOLEAN, handler[m].pc \in {"created", "keys"},
         NewChain(i, handler[m].links, saving),
         conn' \in {conn, [conn EXCEPT ![m] = i]},
         handler' = [handler EXCEPT ![m] = Idle],
         UNCHANGED <<table, saves>>
  PROVE  Settled(l)'
<1>1. l \in handler[m].links
  BY DEF Settled
<1>2. /\ cached' = i /\ chain'[i].links = handler[m].links
      /\ \A j \in Chain : j # i => chain'[j] = chain[j]
  BY DEF NewChain, TypeOK
<1>3. \A n \in Member : /\ conn'[n] = i \/ conn'[n] = conn[n]
                        /\ handler'[n] = Idle \/ handler'[n] = handler[n]
  BY DEF TypeOK
<1>4. \A n \in Member : conn[n] \in Chain \cup {NoChain}
  BY DEF TypeOK
<1> QED BY <1>1, <1>2, <1>3, <1>4 DEF Settled, Idle, table

LEMMA ReceiveSettles ==
  ASSUME TypeOK, NEW l, Settled(l), NEW m \in Member, Receive(m)
  PROVE  Settled(l)'
<1>1. PICK i : i = conn[m]
  OBVIOUS
<1>2. i \in Chain /\ l \in chain[i].links
  BY <1>1 DEF Receive, TypeOK, Settled
<1>3. \A j \in Chain : chain[j].links \subseteq chain'[j].links
  BY <1>1, <1>2 DEF Receive, Merged, TypeOK
<1>4. \A w \in saves' : l \in w.links
  BY <1>1, <1>2 DEF Receive, Settled
<1>5. /\ cached \in Chain \cup {NoChain}
      /\ \A n \in Member : conn[n] \in Chain \cup {NoChain}
  BY DEF TypeOK
<1> QED BY <1>3, <1>4, <1>5 DEF Receive, Settled, table

(* The process ends, after one of its saves or without.                    *)
LEMMA FreshSettles ==
  ASSUME NEW l, Settled(l), Fresh, stored' = stored,
         row' = row \/ \E w \in saves : row' = w.links
  PROVE  Settled(l)'
<1>1. /\ cached' = NoChain /\ saves' = {}
      /\ \A m \in Member : conn'[m] = NoChain /\ handler'[m] = Idle
  BY DEF Fresh, NoConns, NoHandlers
<1> QED BY <1>1 DEF Settled, Idle

LEMMA SettledStays ==
  ASSUME TypeOK, [Next]_vars, NEW l, Settled(l)
  PROVE  Settled(l)'
<1> USE ChainAssumption
<1>1. CASE AddCommunity
  BY <1>1 DEF AddCommunity, Settled
<1>2. CASE FinishCreate
  BY <1>2, NewChainSettles DEF FinishCreate
<1>3. CASE \E m \in Member : FinishLoad(m)
  <2>1. PICK m \in Member, i \in Chain :
          /\ FinishLoad(m) /\ NewChain(i, handler[m].links, TRUE)
          /\ conn' \in {conn, [conn EXCEPT ![m] = i]}
    BY <1>3 DEF FinishLoad
  <2> QED BY <2>1, NewChainSettles DEF FinishLoad
<1>4. CASE \E m \in Member : Receive(m)
  BY <1>4, ReceiveSettles
<1>5. CASE \/ Evict
           \/ \E m \in Member : SignIn(m) \/ Disconnect(m) \/ Send(m)
           \/ \E m \in Member, k \in Link : MakeLink(m, k)
           \/ UNCHANGED vars
  <2>1. /\ UNCHANGED <<table, chain, saves, handler>>
        /\ cached' \in {cached, NoChain}
        /\ \A m \in Member : conn'[m] \in {conn[m], NoChain, cached}
    BY <1>5 DEF Evict, SignIn, Disconnect, Send, MakeLink, vars, TypeOK, table
  <2> QED BY <2>1, QuietSettles
<1>6. CASE \E m \in Member : BeginLoad(m) \/ ReadRow(m) \/ FailLoad(m)
  <2>1. PICK m \in Member : BeginLoad(m) \/ ReadRow(m) \/ FailLoad(m)
    BY <1>6
  <2>2. /\ UNCHANGED <<table, chain, saves, conn, cached>>
        /\ \A n \in Member : n # m => handler'[n] = handler[n]
    BY <2>1 DEF BeginLoad, ReadRow, FailLoad, TypeOK
  <2>3. handler'[m].pc \in {"created", "keys"} => handler'[m].links = row
    <3>1. CASE BeginLoad(m)
      <4>1. PICK signIn \in BOOLEAN :
              handler' = [handler EXCEPT ![m] =
                            [Idle EXCEPT !.pc = "reading", !.signIn = signIn]]
        BY <3>1 DEF BeginLoad
      <4> DEFINE h == [Idle EXCEPT !.pc = "reading", !.signIn = signIn]
      <4>2. h.pc = "reading"
        BY DEF Idle
      <4>3. handler'[m] = h
        BY <4>1 DEF TypeOK
      <4> HIDE DEF h
      <4> QED BY <4>2, <4>3
    <3>2. CASE ReadRow(m)
      BY <3>2 DEF ReadRow, TypeOK
    <3>3. CASE FailLoad(m)
      <4>1. handler'[m] = Idle
        BY <3>3 DEF FailLoad, TypeOK
      <4> QED BY <4>1 DEF Idle
    <3> QED BY <2>1, <3>1, <3>2, <3>3
  <2> QED BY <2>2, <2>3, QuietSettles
<1>7. CASE \E w \in saves : CommitSave(w)
  BY <1>7 DEF CommitSave, Commit, Settled, TypeOK
<1>8. CASE Restart
  BY <1>8, FreshSettles DEF Restart, table
<1>9. CASE \E w \in saves : FailSave(w)
  BY <1>9, FreshSettles DEF FailSave
<1> QED BY <1>1, <1>2, <1>3, <1>4, <1>5, <1>6, <1>7, <1>8, <1>9 DEF Next

-----------------------------------------------------------------------------
(* Every variable holds a value of its type: the chains in memory, the     *)
(* connections, the loads and the saves under way.                         *)
THEOREM TypeCorrect == Spec => []TypeOK
<1>1. IInv => TypeOK
  BY DEF IInv
<1> QED BY <1>1, Invariance, PTL

(* Every update of a chain that a load made is committed, or its save is   *)
(* under way: update() may be called again before an earlier call ends.    *)
THEOREM UpdatesAreWritten == Spec => []EveryUpdateIsWritten
<1>1. IInv => EveryUpdateIsWritten
  BY CoveredSuffices DEF IInv
<1> QED BY <1>1, Invariance, PTL

(* The stored chain loses links only when another SigChain object saves    *)
(* over it, or when two saves of one object are committed out of order.    *)
THEOREM LossesAreToOthers == Spec => RowLosesOnlyToOthers
<1>1. ASSUME IInv, [Next]_vars, ~(row \subseteq row')
      PROVE  rowOf' # rowOf \/ row' \subseteq row
  <2>1. CASE AddCommunity
    BY <1>1, <2>1 DEF AddCommunity, IInv, RowInv, Started
  <2>2. CASE \E w \in saves : CommitSave(w)
    <3>1. PICK w \in saves : row' = w.links /\ rowOf' = w.by
      BY <2>2 DEF CommitSave, Commit
    <3>2. w.by # NoChain
      BY <1>1, <3>1, ChainAssumption DEF IInv, TypeOK
    <3> QED BY <1>1, <3>1, <3>2 DEF IInv, RowInv, Nested, Comparable
  <2>3. CASE \E w \in saves : FailSave(w)
    BY <1>1, <2>3 DEF FailSave, Fresh, IInv, RowInv, FromRow
  <2>4. CASE UNCHANGED row
    BY <1>1, <2>4
  <2> QED BY <1>1, <2>1, <2>2, <2>3, <2>4
        DEF Next, FinishCreate, Evict, Restart, SignIn, BeginLoad, ReadRow,
            FinishLoad, FailLoad, Disconnect, Send, Receive, MakeLink, table,
            vars
<1>2. IInv /\ [Next]_vars => [LossStep]_vars
  BY <1>1 DEF LossStep
<1> QED BY <1>2, Invariance, PTL DEF Spec, RowLosesOnlyToOthers

(* A link that every chain in use and every save under way has, and the    *)
(* row, is never lost: not by restarts, failing or late saves, nor by      *)
(* loads that overlap (CommunitiesManagerService).                         *)
THEOREM SettledLinksStay ==
  Spec => [][\A l \in Link : Settled(l) => Settled(l)']_vars
<1>1. IInv /\ [Next]_vars => [\A l \in Link : Settled(l) => Settled(l)']_vars
  BY SettledStays DEF IInv
<1> QED BY <1>1, Invariance, PTL DEF Spec
=============================================================================
