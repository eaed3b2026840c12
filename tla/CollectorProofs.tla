--------------------------- MODULE CollectorProofs ---------------------------
(***************************************************************************)
(* Theorems about Collector, for all paths and contents, any number of     *)
(* updates and trees of any depth.                                         *)
(*                                                                         *)
(* The inductive invariant says that the root is as it should be all the   *)
(* way down (Proper, in TreesProofs), which of the updates asked for are   *)
(* in which list and where, and that the directories with updates are not  *)
(* ever deeper.  What is claimed of a commit follows from it and from      *)
(* theorem ApplyIs, which says what apply() makes of any updates.          *)
(***************************************************************************)
EXTENDS TreesProofs

History == Seq([file: Targets, val: Values \union {Directory}])

(* What is collected, and what was asked for.                              *)
Collected(us, history) ==
  /\ us = [d \in DOMAIN us |-> us[d]] /\ IsUpdates(us)
  /\ history \in History
  /\ \A d \in DOMAIN us :
       us[d] # << >> /\ \A i \in DOMAIN us[d] : Append(d, us[d][i].name) \in Targets
  /\ KeepsOrder(us, history)

IInv ==
  /\ root.kind \in {"none", "tree"} /\ Proper(root)
  /\ Collected(updates, log)

(* The paths of calls.                                                     *)
LEMMA TargetIs ==
  /\ Files \subseteq Paths \ {<< >>} /\ Targets \subseteq Files
  /\ \A p \in Files : /\ p \in Paths /\ p # << >> /\ Front(p) \in Paths /\ Last(p) \in Names
                      /\ p = Append(Front(p), Last(p))
<1>1. Files \subseteq Paths \ {<< >>} /\ Targets \subseteq Files
  BY PathAssumption DEF Paths
<1> QED
  BY <1>1, PathFront

(* A prefix of a path is one of the directory, or the path.                *)
LEMMA PrefixFront ==
  ASSUME NEW p \in Paths, p # << >>, NEW d \in Paths
  PROVE  /\ IsPrefix(d, p) <=> IsPrefix(d, Front(p)) \/ d = p
         /\ IsPrefix(Front(p), p) /\ Front(p) # p
<1> DEFINE q == Front(p)
           n == Last(p)
<1>1. q \in Paths /\ n \in Names /\ Append(q, n) = p
  BY PathFront
<1> HIDE DEF q, n
<1>2. /\ IsPrefix(d, Append(q, n)) <=> IsPrefix(d, q) \/ d = Append(q, n)
      /\ IsPrefix(q, Append(q, n)) /\ q # Append(q, n)
  BY <1>1, PrefixAppend
<1> QED
  BY <1>1, <1>2 DEF q

(* What can be noted of an entry.                                          *)
LEMMA NotedIs ==
  /\ Absent \in Values /\ Directory \notin Values
  /\ \A e : IsEntry(e) =>
       /\ Noted(e) \in Values \union {Directory}
       /\ Noted(e) \in Values => e.kind # "tree" /\ Noted(e) = ContentOf(e)
       /\ Noted(e) = Absent <=> e = Nothing
       /\ e.kind # "tree" => (ContentOf(e) = Absent <=> e = Nothing)
       /\ e.kind = "tree" => ContentOf(e) = Absent
  /\ \A c : Noted(Blob(c)) = c
  /\ Noted(Nothing) = Absent
<1>1. Absent \in Values /\ Directory \notin Values /\ Absent \notin Contents /\ Contents \subseteq Values
  BY DirectoryAssumption, AbsentAssumption DEF Values
<1>2. \A c : Noted(Blob(c)) = c /\ ContentOf(Blob(c)) = c
  BY Kinds DEF Noted, ContentOf
<1>3. Noted(Nothing) = Absent /\ ContentOf(Nothing) = Absent
  BY Kinds DEF Noted, ContentOf
<1>4. ASSUME NEW e, IsEntry(e)
      PROVE  /\ Noted(e) \in Values \union {Directory}
             /\ Noted(e) \in Values => e.kind # "tree" /\ Noted(e) = ContentOf(e)
             /\ Noted(e) = Absent <=> e = Nothing
             /\ e.kind # "tree" => (ContentOf(e) = Absent <=> e = Nothing)
             /\ e.kind = "tree" => ContentOf(e) = Absent
  <2>1. CASE e = Nothing
    BY <1>1, <1>3, <2>1, Kinds
  <2>2. CASE e.kind = "blob"
    <3>1. PICK c \in Contents : e = Blob(c)
      BY <1>4, <2>2, Kinds
    <3>2. Noted(e) = c /\ ContentOf(e) = c /\ e # Nothing /\ e.kind # "tree"
      BY <1>2, <2>2, <3>1, Kinds
    <3> QED
      BY <1>1, <3>2
  <2>3. CASE e.kind = "tree"
    <3>1. Noted(e) = Directory /\ ContentOf(e) = Absent /\ e # Nothing
      BY <2>3, Kinds DEF Noted, ContentOf
    <3> QED
      BY <1>1, <2>3, <3>1
  <2> QED
    BY <1>4, <2>1, <2>2, <2>3, Kinds
<1> QED
  BY <1>1, <1>2, <1>3, <1>4

-------------------------------------------------------------------------------
(* Collecting. *)

(* A list that an update is appended to.                                   *)
LEMMA ListAppend ==
  ASSUME NEW own, IsList(own), NEW u, u.name \in Names, Proper(u.entry)
  PROVE  LET l == Append(own, u) IN
         /\ IsList(l) /\ l # << >>
         /\ Len(own) \in Nat /\ DOMAIN own = 1 .. Len(own)
         /\ DOMAIN l = 1 .. Len(own) + 1 /\ Len(l) = Len(own) + 1
         /\ \A i \in 1 .. Len(own) : l[i] = own[i]
         /\ l[Len(own) + 1] = u
<1> DEFINE T == ToSet(own) \union {u}
           l == Append(own, u)
<1>1. own \in Seq(T) /\ u \in T
  BY DEF IsList
<1>2. /\ l \in Seq(T) /\ Len(own) \in Nat /\ DOMAIN own = 1 .. Len(own)
      /\ Len(l) = Len(own) + 1 /\ DOMAIN l = 1 .. Len(own) + 1
      /\ \A i \in 1 .. Len(own) : l[i] = own[i]
      /\ l[Len(own) + 1] = u
  <2> HIDE DEF T
  <2> QED
    BY <1>1
<1>3. l # << >>
  BY <1>2, EmptySeq
<1>4. \A i \in DOMAIN l : l[i].name \in Names /\ Proper(l[i].entry)
  <2>1. \A i \in 1 .. Len(own) + 1 : i = Len(own) + 1 \/ i \in 1 .. Len(own)
    BY <1>2
  <2>2. \A i \in DOMAIN own : own[i].name \in Names /\ Proper(own[i].entry)
    BY DEF IsList
  <2> HIDE DEF l
  <2> QED
    BY <1>2, <2>1, <2>2
<1>5. l \in Seq(ToSet(l))
  <2> HIDE DEF l
  <2>1. \A i \in 1 .. Len(l) : l[i] \in ToSet(l)
    BY <1>2 DEF ToSet
  <2> QED
    BY <1>2, <2>1
<1> QED
  BY <1>2, <1>3, <1>4, <1>5 DEF IsList

(* The order of updates, of directories without any, too.                  *)
LEMMA OwnOrder ==
  ASSUME NEW us, NEW history, Collected(us, history), NEW d \in Paths
  PROVE  /\ IsList(UpdatesIn(us, d)) /\ InOrder(UpdatesIn(us, d), d, history)
         /\ Len(UpdatesIn(us, d)) \in Nat
         /\ DOMAIN UpdatesIn(us, d) = 1 .. Len(UpdatesIn(us, d))
<1> DEFINE own == UpdatesIn(us, d)
<1>1. CASE d \in DOMAIN us
  BY <1>1 DEF Collected, IsUpdates, KeepsOrder, UpdatesIn, IsList
<1>2. CASE d \notin DOMAIN us
  <2>1. own = << >>
    BY <1>2 DEF UpdatesIn
  <2>2. own \in Seq(ToSet(own)) /\ DOMAIN own = {} /\ Len(own) = 0
    BY <2>1, EmptySeq
  <2>3. IsList(own)
    BY <2>2 DEF IsList
  <2>4. \A i \in DOMAIN history : Front(history[i].file) # d
    BY <1>2 DEF Collected, KeepsOrder
  <2> DEFINE pos == [j \in {} |-> 1]
  <2>5. pos \in [{} -> DOMAIN history]
    OBVIOUS
  <2> HIDE DEF pos, own
  <2>6. InOrder(own, d, history)
    BY <2>2, <2>4, <2>5 DEF InOrder
  <2> QED
    BY <2>2, <2>3, <2>6 DEF own, IsList
<1> QED
  BY <1>1, <1>2

(* The end of a list that goes on with history.                            *)
LEMMA OrderAppend ==
  ASSUME NEW history \in History, NEW r \in [file: Targets, val: Values \union {Directory}],
         NEW d, NEW own, IsList(own), InOrder(own, d, history),
         NEW u, u.name \in Names, Proper(u.entry)
  PROVE  /\ Front(r.file) # d => InOrder(own, d, Append(history, r))
         /\ Front(r.file) = d /\ r = [file |-> Append(d, u.name), val |-> Noted(u.entry)]
              => InOrder(Append(own, u), d, Append(history, r))
<1> DEFINE new == Append(history, r)
           N == Len(history)
           M == Len(own)
           l == Append(own, u)
<1>1. /\ N \in Nat /\ DOMAIN history = 1 .. N /\ DOMAIN new = 1 .. N + 1
      /\ \A i \in 1 .. N : new[i] = history[i]
      /\ new[N + 1] = r
  BY DEF History
<1>2. /\ M \in Nat /\ DOMAIN own = 1 .. M /\ DOMAIN l = 1 .. M + 1
      /\ \A i \in 1 .. M : l[i] = own[i]
      /\ l[M + 1] = u
  BY ListAppend
<1>3. PICK pos \in [1 .. M -> 1 .. N] :
        /\ \A j, k \in 1 .. M : j < k => pos[j] < pos[k]
        /\ \A i \in 1 .. N : Front(history[i].file) = d <=> \E j \in 1 .. M : i = pos[j]
        /\ \A j \in 1 .. M :
             history[pos[j]] = [file |-> Append(d, own[j].name), val |-> Noted(own[j].entry)]
  <2> HIDE DEF N, M
  <2>1. 1 .. M = DOMAIN own /\ 1 .. N = DOMAIN history
    BY <1>1, <1>2
  <2>2. PICK pos \in [DOMAIN own -> DOMAIN history] :
          /\ \A j, k \in DOMAIN own : j < k => pos[j] < pos[k]
          /\ \A i \in DOMAIN history : Front(history[i].file) = d <=> \E j \in DOMAIN own : i = pos[j]
          /\ \A j \in DOMAIN own :
               history[pos[j]] = [file |-> Append(d, own[j].name), val |-> Noted(own[j].entry)]
    BY Zenon DEF InOrder
  <2>3. pos \in [1 .. M -> 1 .. N]
    BY <2>1, <2>2
  <2>4. \A j, k \in 1 .. M : j < k => pos[j] < pos[k]
    BY <2>1, <2>2
  <2>5. \A i \in 1 .. N : Front(history[i].file) = d <=> \E j \in 1 .. M : i = pos[j]
    BY <2>1, <2>2
  <2>6. \A j \in 1 .. M :
          history[pos[j]] = [file |-> Append(d, own[j].name), val |-> Noted(own[j].entry)]
    BY <2>1, <2>2
  <2> QED
    BY <2>3, <2>4, <2>5, <2>6
<1> HIDE DEF new, N, M, l
<1>4. \A i \in 1 .. N + 1 : i = N + 1 \/ i \in 1 .. N
  BY <1>1
<1>5. \A j \in 1 .. M : pos[j] \in 1 .. N /\ pos[j] < N + 1 /\ pos[j] # N + 1
  BY <1>1, <1>2, <1>3
<1>6. ASSUME Front(r.file) # d PROVE InOrder(own, d, new)
  <2>1. pos \in [DOMAIN own -> DOMAIN new]
    BY <1>1, <1>2, <1>3
  <2>2. ASSUME NEW i \in DOMAIN new
        PROVE  Front(new[i].file) = d <=> \E j \in DOMAIN own : i = pos[j]
    <3>1. CASE i = N + 1
      BY <1>1, <1>2, <1>5, <1>6, <3>1
    <3>2. CASE i \in 1 .. N
      BY <1>1, <1>2, <1>3, <3>2
    <3> QED
      BY <1>1, <1>4, <2>2, <3>1, <3>2
  <2>3. \A j \in DOMAIN own :
          new[pos[j]] = [file |-> Append(d, own[j].name), val |-> Noted(own[j].entry)]
    BY <1>1, <1>2, <1>3, <1>5
  <2>4. \A j, k \in DOMAIN own : j < k => pos[j] < pos[k]
    BY <1>2, <1>3
  <2> QED
    BY <2>1, <2>2, <2>3, <2>4 DEF InOrder
<1>7. ASSUME Front(r.file) = d, r = [file |-> Append(d, u.name), val |-> Noted(u.entry)]
      PROVE  InOrder(l, d, new)
  <2> DEFINE at == [j \in 1 .. M + 1 |-> IF j = M + 1 THEN N + 1 ELSE pos[j]]
  <2>1. \A j \in 1 .. M + 1 : j = M + 1 \/ (j \in 1 .. M /\ j # M + 1)
    BY <1>2
  <2>2. at[M + 1] = N + 1 /\ \A j \in 1 .. M : at[j] = pos[j]
    BY <1>2, <2>1
  <2>3. at \in [1 .. M + 1 -> 1 .. N + 1]
    BY <1>1, <1>3, <2>1
  <2> HIDE DEF at
  <2>4. at \in [DOMAIN l -> DOMAIN new]
    BY <1>1, <1>2, <2>3
  <2>5. \A j, k \in DOMAIN l : j < k => at[j] < at[k]
    <3> SUFFICES ASSUME NEW j \in 1 .. M + 1, NEW k \in 1 .. M + 1, j < k PROVE at[j] < at[k]
      BY <1>2
    <3>1. j \in 1 .. M
      BY <1>2
    <3> QED
      BY <1>3, <1>5, <2>1, <2>2, <3>1
  <2>6. ASSUME NEW i \in DOMAIN new
        PROVE  Front(new[i].file) = d <=> \E j \in DOMAIN l : i = at[j]
    <3>1. CASE i = N + 1
      <4>1. M + 1 \in DOMAIN l
        BY <1>2
      <4> QED
        BY <1>1, <1>7, <2>2, <3>1, <4>1
    <3>2. CASE i \in 1 .. N
      <4>1. i # N + 1 /\ new[i] = history[i]
        BY <1>1, <3>2
      <4>2. (\E j \in DOMAIN l : i = at[j]) <=> \E j \in 1 .. M : i = pos[j]
        BY <1>2, <2>1, <2>2, <4>1
      <4> QED
        BY <1>3, <3>2, <4>1, <4>2
    <3> QED
      BY <1>1, <1>4, <2>6, <3>1, <3>2
  <2>7. ASSUME NEW j \in DOMAIN l
        PROVE  new[at[j]] = [file |-> Append(d, l[j].name), val |-> Noted(l[j].entry)]
    <3>1. CASE j = M + 1
      BY <1>1, <1>2, <1>7, <2>2, <3>1
    <3>2. CASE j \in 1 .. M
      <4>1. at[j] = pos[j] /\ l[j] = own[j] /\ new[pos[j]] = history[pos[j]]
        BY <1>1, <1>2, <1>5, <2>2, <3>2
      <4>2. history[pos[j]] = [file |-> Append(d, own[j].name), val |-> Noted(own[j].entry)]
        BY <1>3, <3>2
      <4> QED
        BY <4>1, <4>2
    <3> QED
      BY <1>2, <2>1, <2>7, <3>1, <3>2
  <2> QED
    BY <2>4, <2>5, <2>6, <2>7 DEF InOrder
<1> QED
  BY <1>6, <1>7 DEF new, l

(* Nothing is collected to begin with.                                     *)
LEMMA NothingCollected ==
  Collected(NoUpdates, << >>)
<1>1. DOMAIN NoUpdates = {} /\ NoUpdates = [d \in DOMAIN NoUpdates |-> NoUpdates[d]]
  BY DEF NoUpdates
<1>2. << >> \in History /\ DOMAIN << >> = {}
  BY EmptySeq DEF History
<1>3. IsUpdates(NoUpdates)
  <2>1. 0 \in Nat
    OBVIOUS
  <2> QED
    BY <1>1, <2>1 DEF IsUpdates
<1>4. KeepsOrder(NoUpdates, << >>)
  BY <1>1, <1>2 DEF KeepsOrder
<1> QED
  BY <1>1, <1>2, <1>3, <1>4 DEF Collected

(* One more update.                                                        *)
LEMMA InsertCollects ==
  ASSUME NEW us, NEW history, Collected(us, history),
         NEW p \in Targets, NEW e, Proper(e)
  PROVE  Collected(Insert(us, p, e), Append(history, [file |-> p, val |-> Noted(e)]))
<1> DEFINE d0 == Front(p)
           u == Update(p, e)
           own == UpdatesIn(us, d0)
           new == Insert(us, p, e)
           r == [file |-> p, val |-> Noted(e)]
           all == Append(history, r)
<1>1. /\ p \in Paths /\ p # << >> /\ d0 \in Paths /\ Last(p) \in Names
      /\ p = Append(d0, Last(p))
  BY TargetIs
<1>2. IsEntry(e) /\ Noted(e) \in Values \union {Directory}
  BY ProperBelow, NotedIs
<1>3. u.name = Last(p) /\ u.entry = e
  BY DEF Update
<1>4. /\ r.file = p /\ r.val = Noted(e) /\ r \in [file: Targets, val: Values \union {Directory}]
      /\ r = [file |-> Append(d0, u.name), val |-> Noted(u.entry)]
  BY <1>1, <1>2, <1>3
<1>5. IsList(own) /\ InOrder(own, d0, history)
  BY <1>1, OwnOrder
<1>6. /\ DOMAIN new = DOMAIN us \union {d0}
      /\ new = [d \in DOMAIN new |-> new[d]]
      /\ new[d0] = Append(own, u)
      /\ \A d \in DOMAIN us : d # d0 => new[d] = us[d]
  BY DEF Insert
<1>7. history \in History
  BY DEF Collected
<1>8. /\ all \in History /\ Len(history) \in Nat
      /\ DOMAIN all = 1 .. Len(history) + 1 /\ DOMAIN history = 1 .. Len(history)
      /\ \A i \in 1 .. Len(history) : all[i] = history[i]
      /\ all[Len(history) + 1] = r
  <2> HIDE DEF r
  <2> QED
    BY <1>4, <1>7 DEF History
<1> HIDE DEF d0, u, own, new, r, all
<1>9. IsList(Append(own, u)) /\ Append(own, u) # << >>
  BY <1>1, <1>3, <1>5, ListAppend
<1>10. IsUpdates(new)
  <2>1. PICK k \in Nat : \A d \in DOMAIN us : Len(d) =< k
    BY DEF Collected, IsUpdates
  <2>2. Len(d0) \in Nat /\ \A d \in DOMAIN us : Len(d) \in Nat
    BY <1>1 DEF Collected, IsUpdates, Paths
  <2>3. k + Len(d0) \in Nat /\ \A d \in DOMAIN new : Len(d) =< k + Len(d0)
    BY <1>6, <2>1, <2>2
  <2>4. DOMAIN new \subseteq Paths /\ \A d \in DOMAIN new : IsList(new[d])
    BY <1>1, <1>6, <1>9 DEF Collected, IsUpdates
  <2> QED
    BY <2>3, <2>4 DEF IsUpdates
<1>11. \A d \in DOMAIN new :
         new[d] # << >> /\ \A i \in DOMAIN new[d] : Append(d, new[d][i].name) \in Targets
  <2>1. ASSUME NEW i \in DOMAIN new[d0] PROVE Append(d0, new[d0][i].name) \in Targets
    <3> DEFINE M == Len(own)
    <3>1. /\ M \in Nat /\ DOMAIN own = 1 .. M /\ DOMAIN new[d0] = 1 .. M + 1
          /\ \A j \in 1 .. M : new[d0][j] = own[j]
          /\ new[d0][M + 1] = u
      BY <1>1, <1>3, <1>5, <1>6, ListAppend
    <3>2. \A j \in DOMAIN own : Append(d0, own[j].name) \in Targets
      <4>1. CASE d0 \in DOMAIN us
        BY <4>1 DEF own, UpdatesIn, Collected
      <4>2. CASE d0 \notin DOMAIN us
        BY <4>2, EmptySeq DEF own, UpdatesIn
      <4> QED
        BY <4>1, <4>2
    <3>3. i = M + 1 \/ i \in 1 .. M
      <4> HIDE DEF M
      <4> QED
        BY <2>1, <3>1
    <3> HIDE DEF M
    <3> QED
      BY <1>1, <1>3, <3>1, <3>2, <3>3
  <2>2. ASSUME NEW d \in DOMAIN us, d # d0
        PROVE  new[d] # << >> /\ \A i \in DOMAIN new[d] : Append(d, new[d][i].name) \in Targets
    BY <1>6, <2>2 DEF Collected
  <2> QED
    BY <1>6, <1>9, <2>1, <2>2
<1>12. KeepsOrder(new, all)
  <2>1. \A i \in DOMAIN all : Front(all[i].file) \in DOMAIN new
    <3>1. \A i \in DOMAIN all : i = Len(history) + 1 \/ i \in 1 .. Len(history)
      BY <1>8
    <3>2. \A i \in DOMAIN history : Front(history[i].file) \in DOMAIN us
      BY DEF Collected, KeepsOrder
    <3> QED
      BY <1>4, <1>6, <1>8, <3>1, <3>2 DEF d0
  <2>2. InOrder(new[d0], d0, all)
    <3>1. Front(r.file) = d0
      BY <1>4 DEF d0
    <3>2. u.name \in Names /\ Proper(u.entry)
      BY <1>1, <1>3
    <3>3. InOrder(Append(own, u), d0, Append(history, r))
      BY <1>4, <1>5, <1>7, <3>1, <3>2, OrderAppend
    <3> QED
      BY <1>6, <3>3 DEF all
  <2>3. ASSUME NEW d \in DOMAIN us, d # d0 PROVE InOrder(new[d], d, all)
    <3>1. Front(r.file) # d
      BY <1>4, <2>3 DEF d0
    <3>2. IsList(us[d]) /\ InOrder(us[d], d, history)
      BY DEF Collected, IsUpdates, KeepsOrder
    <3> QED
      BY <1>1, <1>3, <1>4, <1>6, <1>7, <2>3, <3>1, <3>2, OrderAppend DEF all
  <2> QED
    BY <1>6, <2>1, <2>2, <2>3 DEF KeepsOrder
<1> QED
  BY <1>6, <1>8, <1>10, <1>11, <1>12 DEF Collected, new, all, r

(* Nothing was asked for exactly if nothing is collected.                  *)
LEMMA CollectedEmpty ==
  ASSUME NEW us, NEW history, Collected(us, history)
  PROVE  /\ history = << >> <=> us = NoUpdates
         /\ us = NoUpdates <=> DOMAIN us = {}
<1>1. DOMAIN NoUpdates = {} /\ (DOMAIN us = {} => us = NoUpdates)
  <2>1. us = [d \in DOMAIN us |-> us[d]]
    BY DEF Collected
  <2> QED
    BY <2>1 DEF NoUpdates
<1>2. ASSUME history = << >> PROVE DOMAIN us = {}
  <2> SUFFICES ASSUME NEW d \in DOMAIN us PROVE FALSE
    OBVIOUS
  <2>1. DOMAIN history = {}
    BY <1>2, EmptySeq
  <2>2. IsList(us[d]) /\ us[d] # << >> /\ InOrder(us[d], d, history)
    BY DEF Collected, IsUpdates, KeepsOrder
  <2>3. PICK pos \in [DOMAIN us[d] -> DOMAIN history] : TRUE
    BY <2>2 DEF InOrder
  <2>4. DOMAIN us[d] = {}
    BY <2>1, <2>3
  <2> QED
    BY <2>2, <2>4, EmptySeq DEF IsList
<1>3. ASSUME DOMAIN us = {} PROVE history = << >>
  <2>1. DOMAIN history = {}
    BY <1>3 DEF Collected, KeepsOrder
  <2>2. history \in History
    BY DEF Collected
  <2> QED
    BY <2>1, <2>2, EmptySeq DEF History
<1> QED
  BY <1>1, <1>2, <1>3

(* History goes on by what was asked for.                                  *)
LEMMA Asked ==
  ASSUME NEW history \in History,
         NEW a \in [file: Targets, val: Values \union {Directory}],
         NEW b \in [file: Targets, val: Values \union {Directory}]
  PROVE  /\ history \o << a >> = Append(history, a)
         /\ history \o << a, b >> = Append(Append(history, a), b)
<1> DEFINE T == [file: Targets, val: Values \union {Directory}]
<1>1. history \in Seq(T) /\ a \in T /\ b \in T
  BY DEF History
<1> HIDE DEF T
<1>2. history \o << a >> = Append(history, a)
  BY <1>1
<1>3. history \o << a, b >> = Append(Append(history, a), b)
  BY <1>1
<1> QED
  BY <1>2, <1>3

-------------------------------------------------------------------------------
(* The invariant. *)

(* The invariant implies type correctness.                                 *)
LEMMA InvariantTypes ==
  IInv => TypeOK
<1> SUFFICES ASSUME IInv PROVE TypeOK
  OBVIOUS
<1>1. root.kind \in {"none", "tree"} /\ Proper(root) /\ Collected(updates, log)
  BY DEF IInv
<1>2. \A p \in Files : IsEntry(EntryAt(root, Front(p))) /\ IsEntry(EntryAt(root, p))
  BY <1>1, ProperBelow, TargetIs
<1>3. \A d \in DOMAIN updates :
        /\ updates[d] # << >>
        /\ \A i \in DOMAIN updates[d] :
             /\ Append(d, updates[d][i].name) \in Targets
             /\ IsEntry(updates[d][i].entry)
  BY <1>1, ProperBelow DEF Collected, IsUpdates, IsList
<1>4. log \in Seq([file: Targets, val: Values \union {Directory}])
  BY <1>1 DEF Collected, History
<1>5. log = << >> <=> updates = NoUpdates
  BY <1>1, CollectedEmpty
<1> QED
  BY <1>1, <1>2, <1>3, <1>4, <1>5 DEF TypeOK

(* It holds at first.                                                      *)
LEMMA InvariantInit ==
  Init => IInv
  BY NothingCollected, ProperLeaves, Kinds DEF Init, IInv

(* It is kept when a context ends.                                         *)
LEMMA DropKeeps ==
  IInv /\ Drop => IInv'
  BY NothingCollected DEF Drop, IInv

(* Any step keeps it.                                                      *)
LEMMA InvariantStep ==
  IInv /\ [Next]_vars => IInv'
<1> SUFFICES ASSUME IInv, [Next]_vars PROVE IInv'
  OBVIOUS
<1>1. root.kind \in {"none", "tree"} /\ Proper(root) /\ Collected(updates, log) /\ log \in History
  BY DEF IInv, Collected
<1>2. ASSUME NEW p \in Targets, NEW e, Proper(e)
      PROVE  /\ [file |-> p, val |-> Noted(e)] \in [file: Targets, val: Values \union {Directory}]
             /\ Collected(Insert(updates, p, e), log \o << [file |-> p, val |-> Noted(e)] >>)
  <2> DEFINE r == [file |-> p, val |-> Noted(e)]
  <2>1. r \in [file: Targets, val: Values \union {Directory}]
    BY <1>2, ProperBelow, NotedIs
  <2>2. Collected(Insert(updates, p, e), Append(log, r))
    BY <1>1, <1>2, InsertCollects
  <2> HIDE DEF r
  <2>3. log \o << r >> = Append(log, r)
    BY <1>1, <2>1, Asked
  <2> QED
    BY <2>1, <2>2, <2>3 DEF r
<1>3. ASSUME NEW us, NEW history, Collected(us, history), us # NoUpdates,
             Apply(root, us) # Failed
      PROVE  Apply(root, us).kind \in {"none", "tree"} /\ Proper(Apply(root, us))
  <2>1. DOMAIN us # {} /\ IsUpdates(us)
    BY <1>3, CollectedEmpty DEF Collected
  <2> QED
    BY <1>1, <1>3, <2>1, ApplyIs, Kinds
<1>4. ASSUME NEW p \in Targets, NEW c \in Contents, Add(p, c) PROVE IInv'
  <2>1. Proper(Blob(c)) /\ Noted(Blob(c)) = c
    BY ProperLeaves, NotedIs
  <2>2. Collected(Insert(updates, p, Blob(c)), log \o << [file |-> p, val |-> c] >>)
    BY <1>2, <2>1
  <2> QED
    BY <1>1, <1>4, <2>2 DEF Add, Collect, IInv
<1>5. ASSUME NEW p \in Targets, Del(p) PROVE IInv'
  <2>1. Proper(Nothing) /\ Noted(Nothing) = Absent
    BY ProperLeaves, NotedIs
  <2>2. Collected(Insert(updates, p, Nothing), log \o << [file |-> p, val |-> Absent] >>)
    BY <1>2, <2>1
  <2> QED
    BY <1>1, <1>5, <2>2 DEF Del, Collect, IInv
<1>6. ASSUME NEW p \in Targets, NEW q \in Targets, NEW rooted \in BOOLEAN, Mv(p, q, rooted)
      PROVE  IInv'
  <2>1. CASE rooted \/ EntryAt(root, p) = Nothing
    BY <1>6, <2>1, DropKeeps DEF Mv
  <2>2. CASE ~(rooted \/ EntryAt(root, p) = Nothing)
    <3> DEFINE e == EntryAt(root, p)
               a == [file |-> q, val |-> Noted(e)]
               b == [file |-> p, val |-> Absent]
    <3>1. Proper(e)
      BY <1>1, ProperBelow, TargetIs
    <3>2. Collected(Insert(updates, q, e), Append(log, a))
      BY <1>1, <3>1, InsertCollects
    <3>3. Proper(Nothing) /\ Noted(Nothing) = Absent
      BY ProperLeaves, NotedIs
    <3>4. /\ a \in [file: Targets, val: Values \union {Directory}]
          /\ b \in [file: Targets, val: Values \union {Directory}]
      BY <1>2, <3>1, <3>3, NotedIs
    <3>5. Collected(Insert(Insert(updates, q, e), p, Nothing), Append(Append(log, a), b))
      <4> HIDE DEF e, a
      <4>1. Collected(Insert(Insert(updates, q, e), p, Nothing),
                      Append(Append(log, a), [file |-> p, val |-> Noted(Nothing)]))
        BY <3>2, <3>3, InsertCollects
      <4> QED
        BY <3>3, <4>1
    <3>6. log \o << a, b >> = Append(Append(log, a), b)
      <4> HIDE DEF a, b
      <4> QED
        BY <1>1, <3>4, Asked
    <3>7. Collect(Moving(p, q), << a, b >>)
      BY <1>6, <2>2 DEF Mv
    <3>8. updates' = Insert(Insert(updates, q, e), p, Nothing) /\ log' = log \o << a, b >> /\ root' = root
      BY <3>7 DEF Collect, Moving
    <3> HIDE DEF e, a, b
    <3> QED
      BY <1>1, <3>5, <3>6, <3>8 DEF IInv
  <2> QED
    BY <2>1, <2>2
<1>7. ASSUME NEW p \in Targets, NEW rooted \in BOOLEAN, Read(p, rooted) PROVE IInv'
  <2>1. CASE Drop
    BY <2>1, DropKeeps
  <2>2. CASE UNCHANGED vars
    BY <2>2 DEF IInv, vars
  <2> QED
    BY <1>7, <2>1, <2>2 DEF Read
<1>8. ASSUME NEW p \in Targets, NEW e \in { Blob(c) : c \in Contents } \union {Nothing}, Rebase(p, e)
      PROVE  IInv'
  <2> DEFINE us == Insert(NoUpdates, p, e)
  <2>1. Proper(e)
    BY ProperLeaves
  <2>2. Collected(us, Append(<< >>, [file |-> p, val |-> Noted(e)]))
    BY <2>1, NothingCollected, InsertCollects
  <2>3. Front(p) \in DOMAIN us
    BY DEF Insert
  <2>4. us # NoUpdates
    BY <2>3 DEF NoUpdates
  <2>5. root' = Apply(root, us) /\ Apply(root, us) # Failed /\ updates' = updates /\ log' = log
    BY <1>8 DEF Rebase
  <2> HIDE DEF us
  <2>6. root'.kind \in {"none", "tree"} /\ Proper(root')
    BY <1>3, <2>2, <2>4, <2>5
  <2> QED
    BY <1>1, <2>5, <2>6 DEF IInv
<1>9. ASSUME Commit PROVE IInv'
  <2>1. CASE updates = NoUpdates \/ Apply(root, updates) = Failed
    BY <1>9, <2>1, DropKeeps DEF Commit
  <2>2. CASE ~(updates = NoUpdates \/ Apply(root, updates) = Failed)
    <3>1. root' = Apply(root, updates) /\ updates' = NoUpdates /\ log' = << >>
      BY <1>9, <2>2 DEF Commit
    <3>2. root'.kind \in {"none", "tree"} /\ Proper(root')
      BY <1>1, <1>3, <2>2, <3>1
    <3> QED
      BY <3>1, <3>2, NothingCollected DEF IInv
  <2> QED
    BY <2>1, <2>2
<1>10. CASE UNCHANGED vars
  BY <1>10 DEF IInv, vars
<1> QED
  BY <1>4, <1>5, <1>6, <1>7, <1>8, <1>9, <1>10, DropKeeps DEF Next, Rollback

(* The invariant holds always.                                             *)
LEMMA Invariant ==
  Spec => []IInv
  BY InvariantInit, InvariantStep, PTL DEF Spec

(* Whatever is collected, moved, committed and rebased, the root is a tree *)
(* of files and trees, updates are kept in non-empty lists and as long as  *)
(* history is (TypeOK).                                                    *)
THEOREM TypeCorrect ==
  Spec => []TypeOK
  BY Invariant, InvariantTypes, PTL

(* No update is lost, misplaced or reordered within a directory.           *)
THEOREM OrderIsKept ==
  Spec => []UpdatesInOrder
<1>1. IInv => UpdatesInOrder
  BY DEF IInv, Collected, UpdatesInOrder
<1> QED
  BY <1>1, Invariant, PTL

-------------------------------------------------------------------------------
(* What commits. *)

(* The paths of history.                                                   *)
Asking(history) == { history[i].file : i \in DOMAIN history }

(* Directories are rebuilt above what was asked for, and the names in      *)
(* lists are those asked for.                                              *)
LEMMA AskingIs ==
  ASSUME NEW us, NEW history, Collected(us, history)
  PROVE  /\ Asking(history) \subseteq Targets
         /\ \A d \in Paths : d \in Rebuilt(us) <=> \E p \in Asking(history) : IsPrefix(d, p) /\ d # p
         /\ \A d \in Paths, n \in Names :
              Append(d, n) \in Asking(history) <=>
                \E j \in DOMAIN UpdatesIn(us, d) : UpdatesIn(us, d)[j].name = n
<1>1. /\ history \in History /\ DOMAIN us \subseteq Paths
      /\ \A i \in DOMAIN history : Front(history[i].file) \in DOMAIN us
  BY DEF Collected, IsUpdates, KeepsOrder
<1>2. ASSUME NEW i \in DOMAIN history PROVE history[i].file \in Targets
  <2> DEFINE T == [file: Targets, val: Values \union {Directory}]
  <2>1. history[i] \in T
    <3>1. history \in Seq(T)
      BY <1>1 DEF History
    <3> HIDE DEF T
    <3> QED
      BY <1>2, <3>1
  <2> QED
    BY <2>1
<1>3. Asking(history) \subseteq Targets
  BY <1>2 DEF Asking
<1>4. ASSUME NEW d \in Paths, NEW n \in Names
      PROVE  Append(d, n) \in Asking(history) <=>
               \E j \in DOMAIN UpdatesIn(us, d) : UpdatesIn(us, d)[j].name = n
  <2> DEFINE own == UpdatesIn(us, d)
  <2>1. IsList(own) /\ InOrder(own, d, history)
    BY OwnOrder
  <2> HIDE DEF own
  <2>2. PICK pos \in [DOMAIN own -> DOMAIN history] :
          /\ \A i \in DOMAIN history : Front(history[i].file) = d <=> \E j \in DOMAIN own : i = pos[j]
          /\ \A j \in DOMAIN own :
               history[pos[j]] = [file |-> Append(d, own[j].name), val |-> Noted(own[j].entry)]
    BY <2>1 DEF InOrder
  <2>3. \A m \in Names : Front(Append(d, m)) = d /\ Last(Append(d, m)) = m
    BY PathAppend
  <2>4. \A j \in DOMAIN own : own[j].name \in Names
    BY <2>1 DEF IsList
  <2>5. ASSUME Append(d, n) \in Asking(history) PROVE \E j \in DOMAIN own : own[j].name = n
    <3>1. PICK i \in DOMAIN history : history[i].file = Append(d, n)
      BY <2>5 DEF Asking
    <3>2. PICK j \in DOMAIN own : i = pos[j]
      BY <2>2, <2>3, <3>1
    <3>3. Append(d, own[j].name) = Append(d, n)
      <4>1. history[pos[j]] = [file |-> Append(d, own[j].name), val |-> Noted(own[j].entry)]
        BY <2>2
      <4> QED
        BY <3>1, <3>2, <4>1
    <3>4. own[j].name = n
      BY <2>3, <2>4, <3>3
    <3> QED
      BY <3>4
  <2>6. ASSUME NEW j \in DOMAIN own, own[j].name = n PROVE Append(d, n) \in Asking(history)
    <3>1. history[pos[j]] = [file |-> Append(d, own[j].name), val |-> Noted(own[j].entry)]
      BY <2>2, <2>6
    <3>2. pos[j] \in DOMAIN history
      BY <2>2, <2>6
    <3>3. history[pos[j]].file = Append(d, n)
      BY <2>6, <3>1
    <3> QED
      BY <3>2, <3>3 DEF Asking
  <2> QED
    BY <2>5, <2>6 DEF own
<1>5. ASSUME NEW d \in Paths
      PROVE  d \in Rebuilt(us) <=> \E p \in Asking(history) : IsPrefix(d, p) /\ d # p
  <2>1. ASSUME d \in Rebuilt(us) PROVE \E p \in Asking(history) : IsPrefix(d, p) /\ d # p
    <3>1. PICK q \in DOMAIN us : IsPrefix(d, q)
      BY <1>1, <2>1, RebuiltIs
    <3>2. q \in Paths /\ IsList(us[q]) /\ us[q] # << >> /\ UpdatesIn(us, q) = us[q]
      BY <1>1 DEF Collected, IsUpdates, UpdatesIn
    <3>3. 1 \in DOMAIN us[q]
      BY <3>2, EmptySeq DEF IsList
    <3> DEFINE n == us[q][1].name
    <3>4. n \in Names
      BY <3>2, <3>3 DEF IsList
    <3>5. Append(q, n) \in Asking(history)
      BY <1>4, <3>2, <3>3, <3>4
    <3>6. IsPrefix(d, Append(q, n)) /\ d # Append(q, n)
      <4> HIDE DEF n
      <4>1. ~IsPrefix(Append(q, n), q) /\ (IsPrefix(d, Append(q, n)) <=> IsPrefix(d, q) \/ d = Append(q, n))
        BY <3>2, <3>4, PrefixAppend
      <4> QED
        BY <3>1, <4>1
    <3> QED
      BY <3>5, <3>6
  <2>2. ASSUME NEW p \in Asking(history), IsPrefix(d, p), d # p PROVE d \in Rebuilt(us)
    <3>1. Front(p) \in DOMAIN us
      BY <1>1 DEF Asking
    <3>2. p \in Paths /\ p # << >>
      BY <1>3, TargetIs
    <3>3. IsPrefix(d, Front(p))
      BY <2>2, <3>2, PrefixFront
    <3> QED
      BY <1>1, <3>1, <3>3, RebuiltIs
  <2> QED
    BY <2>1, <2>2
<1> QED
  BY <1>3, <1>4, <1>5

(* What a commit has at a path that is not rebuilt, in a directory that    *)
(* is.                                                                     *)
LEMMA Placed ==
  ASSUME NEW r, Proper(r), NEW us, NEW history, Collected(us, history),
         us # NoUpdates, Apply(r, us) # Failed,
         NEW d \in Rebuilt(us), NEW n \in Names, Append(d, n) \notin Rebuilt(us)
  PROVE  LET own == UpdatesIn(us, d) IN
         /\ d \in Paths
         /\ EntryAt(Apply(r, us), Append(d, n)) = Holding(Base(r, d), own, Len(own), n)
         /\ EntryIn(Base(r, d), n) = EntryAt(r, Append(d, n))
         /\ Append(d, n) \notin Asking(history) =>
              EntryAt(Apply(r, us), Append(d, n)) = EntryAt(r, Append(d, n))
<1> DEFINE own == UpdatesIn(us, d)
           new == Apply(r, us)
<1>1. DOMAIN us # {} /\ IsUpdates(us)
  BY CollectedEmpty DEF Collected
<1>2. d \in Paths
  BY <1>1, RebuiltAbove DEF IsUpdates
<1>3. EntryAt(new, Append(d, n)) = EntryIn(Own(r, us, d), n) /\ Own(r, us, d) # Failed
  BY <1>1, ApplyIs
<1>4. EntryIn(Own(r, us, d), n) = Holding(Base(r, d), own, Len(own), n) /\ EntryAt(r, d).kind # "blob"
  BY <1>1, <1>2, <1>3, OwnIs
<1>5. EntryIn(Base(r, d), n) = EntryAt(r, Append(d, n))
  BY <1>2, <1>4, BaseIs
<1>6. ASSUME Append(d, n) \notin Asking(history)
      PROVE  Holding(Base(r, d), own, Len(own), n) = EntryIn(Base(r, d), n)
  <2>1. Len(own) \in Nat /\ DOMAIN own = 1 .. Len(own)
    BY <1>2, OwnOrder
  <2>2. \A j \in 1 .. Len(own) : own[j].name # n
    BY <1>2, <1>6, <2>1, AskingIs
  <2>3. Newest(own, Len(own), n) = {}
    BY <2>2 DEF Newest
  <2> QED
    BY <2>3 DEF Holding
<1> QED
  BY <1>2, <1>3, <1>4, <1>5, <1>6

(* And so at what was asked for, if nothing below it was.                  *)
LEMMA PlacedAsked ==
  ASSUME NEW r, Proper(r), NEW us, NEW history, Collected(us, history),
         us # NoUpdates, Apply(r, us) # Failed,
         NEW p \in Asking(history), p \notin Rebuilt(us)
  PROVE  LET own == UpdatesIn(us, Front(p)) IN
         /\ Front(p) \in Rebuilt(us)
         /\ EntryAt(Apply(r, us), p) = Holding(Base(r, Front(p)), own, Len(own), Last(p))
         /\ EntryIn(Base(r, Front(p)), Last(p)) = EntryAt(r, p)
<1> DEFINE d == Front(p)
           n == Last(p)
<1>1. p \in Paths /\ p # << >> /\ d \in Paths /\ n \in Names /\ Append(d, n) = p
  BY AskingIs, TargetIs
<1>2. IsPrefix(d, p) /\ d # p
  BY <1>1, PrefixFront
<1> HIDE DEF d, n
<1>3. d \in Rebuilt(us)
  BY <1>1, <1>2, AskingIs
<1>4. Append(d, n) \notin Rebuilt(us)
  BY <1>1
<1>5. /\ EntryAt(Apply(r, us), Append(d, n)) =
           Holding(Base(r, d), UpdatesIn(us, d), Len(UpdatesIn(us, d)), n)
      /\ EntryIn(Base(r, d), n) = EntryAt(r, Append(d, n))
  BY <1>1, <1>3, <1>4, Placed
<1> QED
  BY <1>1, <1>3, <1>5 DEF d, n

(* A commit keeps whatever is not above, at or below what was asked for.   *)
LEMMA Elsewhere ==
  ASSUME NEW r, Proper(r), NEW us, NEW history, Collected(us, history),
         us # NoUpdates, Apply(r, us) # Failed,
         NEW f \in Paths, \A p \in Asking(history) : ~IsPrefix(p, f) /\ ~IsPrefix(f, p)
  PROVE  EntryAt(Apply(r, us), f) = EntryAt(r, f)
<1>1. DOMAIN us # {} /\ IsUpdates(us)
  BY CollectedEmpty DEF Collected
<1>2. /\ << >> \in Rebuilt(us) /\ Rebuilt(us) \subseteq Paths
  BY <1>1, RebuiltAbove DEF IsUpdates
<1>3. f \notin Rebuilt(us)
  BY AskingIs
<1>4. \E d \in Rebuilt(us), n \in Names : Append(d, n) \notin Rebuilt(us) /\ IsPrefix(Append(d, n), f)
  <2> SUFFICES ASSUME \A d \in Rebuilt(us), n \in Names :
                        IsPrefix(Append(d, n), f) => Append(d, n) \in Rebuilt(us)
               PROVE  FALSE
    OBVIOUS
  <2> DEFINE S == { q \in Paths : IsPrefix(q, f) => q \in Rebuilt(us) }
  <2>1. << >> \in S
    BY <1>2, PrefixOrder
  <2>2. ASSUME NEW q \in Paths, NEW n \in Names, q \in S PROVE Append(q, n) \in S
    <3>1. Append(q, n) \in Paths
      BY PathAppend
    <3>2. IsPrefix(Append(q, n), f) => IsPrefix(q, f)
      BY <3>1, PrefixAppend, PrefixOrder
    <3> QED
      BY <2>2, <3>1, <3>2
  <2>3. Paths \subseteq S
    <3> HIDE DEF S
    <3> QED
      BY <2>1, <2>2, PathInduction
  <2>4. IsPrefix(f, f)
    BY PrefixOrder
  <2> QED
    BY <1>3, <2>3, <2>4
<1>5. PICK d \in Rebuilt(us), n \in Names : Append(d, n) \notin Rebuilt(us) /\ IsPrefix(Append(d, n), f)
  BY <1>4
<1>6. d \in Paths /\ Append(d, n) \in Paths
  BY <1>2, PathAppend
<1>7. Append(d, n) \notin Asking(history)
  BY <1>5
<1>8. EntryAt(Apply(r, us), Append(d, n)) = EntryAt(r, Append(d, n))
  BY <1>5, <1>7, Placed
<1> QED
  BY <1>5, <1>6, <1>8, SameBelow

(* A commit keeps everything but what updates name and what is above or    *)
(* below that, for directories, too.                                       *)
THEOREM OthersAreKept ==
  Spec => []NothingElseChanges
<1>1. ASSUME IInv PROVE NothingElseChanges
  <2> SUFFICES ASSUME updates # NoUpdates, Apply(root, updates) # Failed, NEW f \in Files,
                      \A p \in Touched : ~IsPrefix(p, f) /\ ~IsPrefix(f, p)
               PROVE  FilesOf(Apply(root, updates))[f] = FilesOf(root)[f]
    BY DEF NothingElseChanges
  <2>1. f \in Paths /\ Touched = Asking(log)
    BY TargetIs DEF Touched, Asking
  <2>2. EntryAt(Apply(root, updates), f) = EntryAt(root, f)
    BY <1>1, <2>1, Elsewhere DEF IInv
  <2> QED
    BY <2>2 DEF FilesOf
<1> QED
  BY <1>1, Invariant, PTL

(* A file that was asked for, or is not above or below any that was, reads *)
(* as what a commit makes of it.                                           *)
THEOREM ReadsAreOfTheCommit ==
  Spec => []ReadsWhatCommits
<1>1. ASSUME IInv PROVE ReadsWhatCommits
  <2> SUFFICES ASSUME updates # NoUpdates, Apply(root, updates) # Failed, NamesFiles,
                      NEW f \in Files, EntryAt(root, f).kind # "tree",
                      \A p \in Touched : p = f \/ (~IsPrefix(p, f) /\ ~IsPrefix(f, p))
               PROVE  Reading(updates, f, FALSE) = FilesOf(Apply(root, updates))[f]
    BY DEF ReadsWhatCommits
  <2> DEFINE d == Front(f)
             n == Last(f)
             own == UpdatesIn(updates, d)
             J == Newest(own, Len(own), n)
             new == Apply(root, updates)
  <2>1. Proper(root) /\ Collected(updates, log) /\ Touched = Asking(log)
    BY <1>1 DEF IInv, Touched, Asking
  <2>2. f \in Paths /\ d \in Paths /\ n \in Names /\ f = Append(d, n)
    BY TargetIs
  <2>3. IsList(own) /\ InOrder(own, d, log) /\ Len(own) \in Nat /\ DOMAIN own = 1 .. Len(own)
    BY <2>1, <2>2, OwnOrder
  <2>4. Reading(updates, f, FALSE) =
          LET e == IF J = {} THEN Nothing ELSE own[CHOOSE i \in J : TRUE].entry
          IN  ContentOf(IF J = {} \/ e.kind = "tree" THEN EntryAt(root, f) ELSE e)
    <3>1. J = { i \in DOMAIN own :
                  own[i].name = n /\ \A j \in i + 1 .. Len(own) : own[j].name # n }
      BY <2>3 DEF Newest
    <3> QED
      BY <3>1 DEF Reading
  <2>5. FilesOf(new)[f] = ContentOf(EntryAt(new, f))
    BY DEF FilesOf
  <2> HIDE DEF own, new, d, n
  <2>6. CASE f \notin Touched
    <3>1. \A p \in Touched : ~IsPrefix(p, f) /\ ~IsPrefix(f, p)
      BY <2>6
    <3>2. EntryAt(new, f) = EntryAt(root, f)
      BY <2>1, <2>2, <3>1, Elsewhere DEF new
    <3>3. \A j \in 1 .. Len(own) : own[j].name # n
      <4>1. Append(d, n) \in Asking(log) <=> \E j \in DOMAIN own : own[j].name = n
        BY <2>1, <2>2, AskingIs DEF own
      <4> QED
        BY <2>1, <2>2, <2>3, <2>6, <4>1
    <3>4. J = {}
      BY <3>3 DEF Newest
    <3> HIDE DEF J
    <3> QED
      BY <2>4, <2>5, <3>2, <3>4 DEF new
  <2>7. CASE f \in Touched
    <3>1. f \notin Rebuilt(updates)
      BY <2>1, <2>2, AskingIs
    <3>2. f \in Asking(log)
      BY <2>1, <2>7
    <3>3. EntryAt(new, f) = Holding(Base(root, d), own, Len(own), n)
      BY <2>1, <3>1, <3>2, PlacedAsked DEF own, new, d, n
    <3>4. EntryIn(Base(root, d), n) = EntryAt(root, f)
      BY <2>1, <3>1, <3>2, PlacedAsked DEF d, n
    <3>5. CASE J = {}
      <4>1. EntryAt(new, f) = EntryAt(root, f)
        BY <3>3, <3>4, <3>5 DEF Holding
      <4> HIDE DEF J
      <4> QED
        BY <2>4, <2>5, <3>5, <4>1 DEF new
    <3>6. CASE J # {}
      <4> DEFINE i == CHOOSE i \in J : TRUE
      <4>1. EntryAt(new, f) = own[i].entry
        BY <3>3, <3>6 DEF Holding
      <4>2. i \in DOMAIN own
        BY <2>3, <3>6 DEF Newest
      <4> HIDE DEF i
      <4>3. own[i].entry.kind # "tree"
        <5>1. PICK k \in DOMAIN log : log[k] = [file |-> Append(d, own[i].name), val |-> Noted(own[i].entry)]
          BY <2>3, <4>2 DEF InOrder
        <5>2. Noted(own[i].entry) \in Values
          BY <5>1 DEF NamesFiles
        <5>3. IsEntry(own[i].entry)
          BY <2>3, <4>2, ProperBelow DEF IsList
        <5> QED
          BY <5>2, <5>3, NotedIs
      <4> HIDE DEF J
      <4> QED
        BY <2>4, <2>5, <3>6, <4>1, <4>3 DEF i, new
    <3> QED
      BY <3>5, <3>6
  <2> QED
    BY <2>6, <2>7 DEF new
<1> QED
  BY <1>1, Invariant, PTL

-------------------------------------------------------------------------------
(* Commits as snapshots. *)

(* Where in history the updates own of directory d are.                    *)
Order(pos, own, d, history) ==
  /\ pos \in [DOMAIN own -> DOMAIN history]
  /\ \A j, k \in DOMAIN own : j < k => pos[j] < pos[k]
  /\ \A i \in DOMAIN history :
       Front(history[i].file) = d <=> \E j \in DOMAIN own : i = pos[j]
  /\ \A j \in DOMAIN own :
       history[pos[j]] = [file |-> Append(d, own[j].name), val |-> Noted(own[j].entry)]

(* The first k updates of a directory are those before place i.            *)
Cut(pos, own, k, i) == \A j \in DOMAIN own : pos[j] < i <=> j =< k

(* What decides in a list decides in history.                              *)
LEMMA DecidingIs ==
  ASSUME NEW history \in History, NEW own, IsList(own), NEW d \in Paths, NEW n \in Names,
         NEW pos, Order(pos, own, d, history),
         NEW k \in 0 .. Len(own), NEW i \in 1 .. Len(history) + 1, Cut(pos, own, k, i)
  PROVE  \A m : m \in Deciding(history, i, Append(d, n)) <=> \E j \in Newest(own, k, n) : m = pos[j]
<1> DEFINE f == Append(d, n)
<1>1. /\ Len(own) \in Nat /\ DOMAIN own = 1 .. Len(own) /\ \A j \in DOMAIN own : own[j].name \in Names
      /\ Len(history) \in Nat /\ DOMAIN history = 1 .. Len(history)
  BY DEF IsList, History
<1>2. pos \in [1 .. Len(own) -> 1 .. Len(history)]
  BY <1>1 DEF Order
<1>3. \A j, l \in 1 .. Len(own) : j < l => pos[j] < pos[l]
  BY <1>1 DEF Order
<1>4. \A j, l \in 1 .. Len(own) : pos[j] < pos[l] => j < l
  <2> SUFFICES ASSUME NEW j \in 1 .. Len(own), NEW l \in 1 .. Len(own), pos[j] < pos[l] PROVE j < l
    OBVIOUS
  <2>1. pos[j] \in Nat /\ pos[l] \in Nat
    BY <1>1, <1>2
  <2>2. ~(l < j) /\ l # j
    BY <1>3, <2>1
  <2> QED
    BY <1>1, <2>2
<1>5. \A j \in 1 .. Len(own) : history[pos[j]].file = f <=> own[j].name = n
  <2> SUFFICES ASSUME NEW j \in 1 .. Len(own) PROVE history[pos[j]].file = f <=> own[j].name = n
    OBVIOUS
  <2>1. history[pos[j]] = [file |-> Append(d, own[j].name), val |-> Noted(own[j].entry)]
    BY <1>1 DEF Order
  <2>2. history[pos[j]].file = Append(d, own[j].name)
    BY <2>1
  <2>3. Last(Append(d, own[j].name)) = own[j].name /\ Last(f) = n
    BY <1>1, PathAppend
  <2> QED
    BY <2>2, <2>3
<1>6. \A m \in 1 .. Len(history) : history[m].file = f => \E j \in 1 .. Len(own) : m = pos[j]
  <2>1. Front(f) = d
    BY PathAppend
  <2> HIDE DEF f
  <2> QED
    BY <1>1, <2>1 DEF Order
<1>7. \A j \in 1 .. Len(own) : pos[j] < i <=> j =< k
  BY <1>1 DEF Cut
<1> HIDE DEF f
<1>8. ASSUME NEW j \in Newest(own, k, n) PROVE pos[j] \in Deciding(history, i, f)
  <2>1. j \in 1 .. k /\ j \in 1 .. Len(own) /\ own[j].name = n /\ \A l \in j + 1 .. k : own[l].name # n
    BY <1>1 DEF Newest
  <2>2. pos[j] \in 1 .. i - 1 /\ history[pos[j]].file = f
    BY <1>1, <1>2, <1>5, <1>7, <2>1
  <2>3. ASSUME NEW m \in pos[j] + 1 .. i - 1 PROVE history[m].file # f
    <3> SUFFICES ASSUME history[m].file = f PROVE FALSE
      OBVIOUS
    <3>1. m \in 1 .. Len(history) /\ m < i /\ pos[j] < m
      BY <1>1, <2>2, <2>3
    <3>2. PICK l \in 1 .. Len(own) : m = pos[l]
      BY <1>6, <3>1
    <3>3. l =< k /\ j < l
      BY <1>4, <1>7, <2>1, <3>1, <3>2
    <3>4. l \in j + 1 .. k
      BY <1>1, <2>1, <3>3
    <3>5. own[l].name = n
      BY <1>5, <3>2
    <3> QED
      BY <2>1, <3>4, <3>5
  <2> QED
    BY <2>2, <2>3 DEF Deciding
<1>9. ASSUME NEW m \in Deciding(history, i, f) PROVE \E j \in Newest(own, k, n) : m = pos[j]
  <2>1. /\ m \in 1 .. i - 1 /\ history[m].file = f
        /\ \A l \in m + 1 .. i - 1 : history[l].file # f
    BY DEF Deciding
  <2>2. m \in 1 .. Len(history) /\ m < i
    BY <1>1, <2>1
  <2>3. PICK j \in 1 .. Len(own) : m = pos[j]
    BY <1>6, <2>1, <2>2
  <2>4. own[j].name = n /\ j \in 1 .. k
    BY <1>1, <1>5, <1>7, <2>1, <2>2, <2>3
  <2>5. ASSUME NEW l \in j + 1 .. k PROVE own[l].name # n
    <3>1. l \in 1 .. Len(own) /\ j < l /\ l =< k
      BY <1>1, <2>3, <2>5
    <3>2. pos[j] < pos[l] /\ pos[l] < i /\ pos[l] \in 1 .. Len(history)
      BY <1>2, <1>3, <1>7, <2>3, <3>1
    <3>3. pos[l] \in m + 1 .. i - 1
      BY <1>1, <2>1, <2>3, <3>2
    <3> QED
      BY <1>5, <2>1, <3>1, <3>3
  <2> QED
    BY <2>3, <2>4, <2>5 DEF Newest
<1> QED
  BY <1>8, <1>9 DEF f

(* What a builder of files holds is what the snapshot holds.               *)
LEMMA ValueIs ==
  ASSUME NEW r, Proper(r), NEW history \in History, \A i \in DOMAIN history : history[i].val \in Values,
         NEW own, IsList(own), NEW d \in Paths, NEW n \in Names,
         Append(d, n) \in Files,
         EntryAt(r, d).kind # "blob", EntryAt(r, Append(d, n)).kind # "tree",
         NEW pos, Order(pos, own, d, history),
         NEW k \in 0 .. Len(own), NEW i \in 1 .. Len(history) + 1, Cut(pos, own, k, i)
  PROVE  LET h == Holding(Base(r, d), own, k, n) IN
         /\ IsEntry(h) /\ h.kind # "tree"
         /\ ContentOf(h) = ValueBefore(FilesOf(r), history, i, Append(d, n))
<1> DEFINE f == Append(d, n)
           J == Newest(own, k, n)
           D == Deciding(history, i, f)
           h == Holding(Base(r, d), own, k, n)
           v == ValueBefore(FilesOf(r), history, i, f)
<1>1. \A m : m \in D <=> \E j \in J : m = pos[j]
  BY DecidingIs
<1>2. Len(own) \in Nat /\ DOMAIN own = 1 .. Len(own) /\ J \subseteq DOMAIN own
  BY DEF IsList, Newest
<1>3. v = IF D = {} THEN FilesOf(r)[f] ELSE history[CHOOSE j \in D : TRUE].val
  BY DEF ValueBefore
<1>4. h = IF J = {} THEN EntryIn(Base(r, d), n) ELSE own[CHOOSE j \in J : TRUE].entry
  BY DEF Holding
<1>5. \A a, b \in J : a = b
  BY <1>2, NewestIs
<1>6. CASE J = {}
  <2>1. D = {}
    BY <1>1, <1>6
  <2>2. FilesOf(r)[f] = ContentOf(EntryAt(r, f))
    BY DEF FilesOf
  <2>3. EntryIn(Base(r, d), n) = EntryAt(r, f)
    BY BaseIs
  <2>4. IsEntry(EntryAt(r, f)) /\ EntryAt(r, f).kind # "tree"
    BY PathAppend, ProperBelow
  <2> HIDE DEF f, J, D, h, v
  <2> QED
    BY <1>3, <1>4, <1>6, <2>1, <2>2, <2>3, <2>4 DEF h, v, f
<1>7. CASE J # {}
  <2> DEFINE a == CHOOSE j \in J : TRUE
             m == CHOOSE j \in D : TRUE
  <2>1. a \in J
    BY <1>7
  <2>2. pos[a] \in D
    BY <1>1, <2>1
  <2>3. m \in D
    BY <2>2
  <2>4. PICK b \in J : m = pos[b]
    BY <1>1, <2>3
  <2>5. b = a
    BY <1>5, <2>1, <2>4
  <2>6. a \in DOMAIN own
    BY <1>2, <2>1
  <2>7. h = own[a].entry /\ v = history[m].val
    <3> HIDE DEF J, D, h, v
    <3> QED
      BY <1>3, <1>4, <1>7, <2>2
  <2> HIDE DEF f, J, D, h, v, a, m
  <2>8. /\ history[pos[a]] = [file |-> Append(d, own[a].name), val |-> Noted(own[a].entry)]
        /\ pos[a] \in DOMAIN history
    BY <2>6 DEF Order
  <2>9. v = Noted(h) /\ v \in Values
    BY <2>4, <2>5, <2>7, <2>8
  <2>10. IsEntry(h)
    BY <2>6, <2>7, ProperBelow DEF IsList
  <2>11. h.kind # "tree" /\ ContentOf(h) = v
    BY <2>9, <2>10, NotedIs
  <2> QED
    BY <2>10, <2>11 DEF h, v, f
<1> QED
  BY <1>6, <1>7

(* If only files are named, nothing that is rebuilt is a file, and nothing *)
(* that is named is rebuilt.                                               *)
LEMMA NamingFiles ==
  ASSUME IInv, NamesFiles
  PROVE  /\ \A d \in Rebuilt(updates) : d \in Paths /\ EntryAt(root, d).kind # "blob"
         /\ \A p \in Asking(log) :
              /\ p \in Files /\ p \in Paths /\ p # << >> /\ p \notin Rebuilt(updates)
              /\ EntryAt(root, p).kind # "tree"
              /\ Front(p) \in Rebuilt(updates) /\ Front(p) \in Paths /\ Last(p) \in Names
              /\ p = Append(Front(p), Last(p))
<1>1. Collected(updates, log) /\ root.kind # "blob" /\ Touched = Asking(log)
  BY DEF IInv, Touched, Asking
<1>2. DOMAIN updates \subseteq Paths /\ Rebuilt(updates) \subseteq Paths
  BY <1>1, RebuiltAbove DEF Collected, IsUpdates
<1>3. \A d \in Paths : d \in Rebuilt(updates) <=> \E p \in Asking(log) : IsPrefix(d, p) /\ d # p
  BY <1>1, AskingIs
<1>4. ASSUME NEW p \in Asking(log)
      PROVE  /\ p \in Files /\ p \in Paths /\ p # << >>
             /\ Front(p) \in Paths /\ Last(p) \in Names /\ p = Append(Front(p), Last(p))
  BY <1>1, AskingIs, TargetIs
<1>5. ASSUME NEW d \in Rebuilt(updates) PROVE EntryAt(root, d).kind # "blob"
  <2>1. PICK p \in Asking(log) : IsPrefix(d, p) /\ d # p
    BY <1>2, <1>3
  <2>2. d \in Paths /\ p \in Paths /\ Len(d) \in Nat /\ Len(p) \in Nat
    BY <1>2, <1>4 DEF Paths
  <2>3. Len(d) =< Len(p) /\ d = SubSeq(p, 1, Len(d))
    BY <2>1, <2>2, PrefixIs
  <2>4. Len(d) # Len(p)
    <3>1. SubSeq(p, 1, Len(p)) = p
      BY <2>2, SubSeqFull DEF Paths
    <3> QED
      BY <2>1, <2>3, <3>1
  <2>5. CASE Len(d) = 0
    <3>1. d = << >>
      BY <2>2, <2>5, EmptySeq DEF Paths
    <3>2. EntryAt(root, << >>) = root
      BY EntryAtAppend
    <3> QED
      BY <1>1, <3>1, <3>2
  <2>6. CASE Len(d) # 0
    <3>1. Len(d) \in 1 .. Len(p) - 1
      BY <2>2, <2>3, <2>4, <2>6
    <3>2. EntryAt(root, SubSeq(p, 1, Len(d))).kind # "blob"
      BY <1>1, <3>1 DEF NamesFiles
    <3> QED
      BY <2>3, <3>2
  <2> QED
    BY <2>5, <2>6
<1>6. ASSUME NEW p \in Asking(log) PROVE p \notin Rebuilt(updates) /\ EntryAt(root, p).kind # "tree"
  <2>1. \A q \in Asking(log) : IsPrefix(p, q) => p = q
    BY <1>1 DEF NamesFiles
  <2> QED
    BY <1>1, <1>3, <1>4, <2>1 DEF NamesFiles
<1>7. ASSUME NEW p \in Asking(log) PROVE Front(p) \in Rebuilt(updates)
  <2>1. IsPrefix(Front(p), p) /\ Front(p) # p
    BY <1>4, PrefixFront
  <2> QED
    BY <1>3, <1>4, <2>1
<1> QED
  BY <1>2, <1>4, <1>5, <1>6, <1>7

(* Failing is the same for directories and for a snapshot.                 *)
LEMMA FailsAsSnapshot ==
  ASSUME IInv, NamesFiles, log # << >>
  PROVE  Apply(root, updates) = Failed <=> ~Applies(FilesOf(root), log)
<1>1. Proper(root) /\ Collected(updates, log) /\ log \in History
  BY DEF IInv, Collected
<1>2. DOMAIN updates # {} /\ IsUpdates(updates)
  BY <1>1, CollectedEmpty DEF Collected
<1>3. \A d \in Rebuilt(updates) : d \in Paths /\ EntryAt(root, d).kind # "blob"
  BY NamingFiles
<1>4. \A i \in DOMAIN log : log[i].val \in Values /\ log[i].file \in Asking(log)
  BY DEF NamesFiles, Asking
<1>5. Len(log) \in Nat /\ DOMAIN log = 1 .. Len(log)
  BY <1>1 DEF History
<1>6. ASSUME NEW d \in Paths, EntryAt(root, d).kind # "blob",
             NEW pos, Order(pos, UpdatesIn(updates, d), d, log),
             NEW j \in DOMAIN UpdatesIn(updates, d)
      PROVE  FailsAt(Base(root, d), UpdatesIn(updates, d), j) <=>
               /\ log[pos[j]].val = Absent
               /\ ValueBefore(FilesOf(root), log, pos[j], log[pos[j]].file) = Absent
  <2> DEFINE own == UpdatesIn(updates, d)
             n == own[j].name
             h == Holding(Base(root, d), own, j - 1, n)
             i == pos[j]
  <2>1. IsList(own) /\ Len(own) \in Nat /\ DOMAIN own = 1 .. Len(own)
    BY <1>1, <1>6, OwnOrder
  <2>2. log[i] = [file |-> Append(d, n), val |-> Noted(own[j].entry)] /\ i \in 1 .. Len(log)
    BY <1>5, <1>6 DEF Order
  <2>3. log[i].file = Append(d, n) /\ log[i].val = Noted(own[j].entry)
    BY <2>2
  <2>4. n \in Names /\ IsEntry(own[j].entry) /\ j \in 1 .. Len(own)
    BY <1>6, <2>1, ProperBelow DEF IsList
  <2>5. Append(d, n) \in Files /\ EntryAt(root, Append(d, n)).kind # "tree"
    BY <1>4, <1>5, <2>2, <2>3, NamingFiles
  <2>6. Cut(pos, own, j - 1, i)
    <3> SUFFICES ASSUME NEW l \in 1 .. Len(own) PROVE pos[l] < i <=> l =< j - 1
      BY <2>1 DEF Cut
    <3>1. /\ l < j => pos[l] < pos[j]
          /\ j < l => pos[j] < pos[l]
          /\ pos[l] \in 1 .. Len(log) /\ pos[j] \in 1 .. Len(log)
      <4> HIDE DEF own
      <4> QED
        BY <1>5, <1>6, <2>1, <2>4 DEF Order, own
    <3>2. l < j \/ l = j \/ j < l
      BY <2>4
    <3> QED
      BY <1>5, <2>1, <2>4, <3>1, <3>2
  <2>7. j - 1 \in 0 .. Len(own) /\ i \in 1 .. Len(log) + 1
    BY <1>5, <2>1, <2>2, <2>4
  <2>8. /\ IsEntry(h) /\ h.kind # "tree"
        /\ ContentOf(h) = ValueBefore(FilesOf(root), log, i, Append(d, n))
    <3> HIDE DEF n, own, i
    <3> QED
      BY <1>1, <1>4, <1>6, <2>1, <2>4, <2>5, <2>6, <2>7, ValueIs DEF own
  <2>9. /\ own[j].entry = Nothing <=> log[i].val = Absent
        /\ h = Nothing <=> ContentOf(h) = Absent
    BY <2>3, <2>4, <2>8, NotedIs
  <2>10. FailsAt(Base(root, d), own, j) <=> own[j].entry = Nothing /\ h = Nothing
    BY DEF FailsAt
  <2> HIDE DEF own, n, h, i
  <2>11. FailsAt(Base(root, d), own, j) <=>
           log[i].val = Absent /\ ValueBefore(FilesOf(root), log, i, log[i].file) = Absent
    BY <2>3, <2>8, <2>9, <2>10
  <2> QED
    BY <2>11 DEF own, i
<1>7. ASSUME NEW d \in Paths PROVE \E pos : Order(pos, UpdatesIn(updates, d), d, log)
  <2>1. InOrder(UpdatesIn(updates, d), d, log)
    BY <1>1, OwnOrder
  <2> QED
    BY <2>1 DEF InOrder, Order
<1>8. Apply(root, updates) = Failed <=>
        \E d \in Rebuilt(updates) :
          \E j \in DOMAIN UpdatesIn(updates, d) :
            FailsAt(Base(root, d), UpdatesIn(updates, d), j)
  <2>1. Apply(root, updates) = Failed <=> \E d \in Rebuilt(updates) : Own(root, updates, d) = Failed
    BY <1>1, <1>2, ApplyIs
  <2>2. ASSUME NEW d \in Rebuilt(updates)
        PROVE  Own(root, updates, d) = Failed <=>
                 \E j \in DOMAIN UpdatesIn(updates, d) :
                   FailsAt(Base(root, d), UpdatesIn(updates, d), j)
    BY <1>1, <1>2, <1>3, OwnIs
  <2> QED
    BY <2>1, <2>2
<1>9. ASSUME Apply(root, updates) = Failed PROVE ~Applies(FilesOf(root), log)
  <2>1. PICK d \in Rebuilt(updates) :
          \E j \in DOMAIN UpdatesIn(updates, d) :
            FailsAt(Base(root, d), UpdatesIn(updates, d), j)
    BY <1>8, <1>9
  <2>2. PICK j \in DOMAIN UpdatesIn(updates, d) :
          FailsAt(Base(root, d), UpdatesIn(updates, d), j)
    BY <2>1
  <2>3. PICK pos : Order(pos, UpdatesIn(updates, d), d, log)
    BY <1>3, <1>7
  <2>4. /\ log[pos[j]].val = Absent
        /\ ValueBefore(FilesOf(root), log, pos[j], log[pos[j]].file) = Absent
    BY <1>3, <1>6, <2>2, <2>3
  <2>5. pos[j] \in DOMAIN log
    BY <2>3 DEF Order
  <2> QED
    BY <2>4, <2>5 DEF Applies
<1>10. ASSUME ~Applies(FilesOf(root), log) PROVE Apply(root, updates) = Failed
  <2>1. PICK i \in DOMAIN log : /\ log[i].val = Absent
                                /\ ValueBefore(FilesOf(root), log, i, log[i].file) = Absent
    BY <1>10 DEF Applies
  <2> DEFINE d == Front(log[i].file)
  <2>2. d \in Rebuilt(updates) /\ d \in Paths
    BY <1>4, NamingFiles
  <2>3. PICK pos : Order(pos, UpdatesIn(updates, d), d, log)
    BY <1>7, <2>2
  <2>4. PICK j \in DOMAIN UpdatesIn(updates, d) : i = pos[j]
    BY <2>3 DEF Order
  <2> HIDE DEF d
  <2>5. FailsAt(Base(root, d), UpdatesIn(updates, d), j)
    BY <1>3, <1>6, <2>1, <2>2, <2>3, <2>4
  <2> QED
    BY <1>8, <2>2, <2>5
<1> QED
  BY <1>9, <1>10

(* So is what comes of it.                                                 *)
LEMMA CommitsAsSnapshot ==
  ASSUME IInv, NamesFiles, log # << >>, Apply(root, updates) # Failed, NEW f \in Files
  PROVE  ContentOf(EntryAt(Apply(root, updates), f)) =
           ValueBefore(FilesOf(root), log, Len(log) + 1, f)
<1> DEFINE new == Apply(root, updates)
           v(p) == ValueBefore(FilesOf(root), log, Len(log) + 1, p)
<1>1. Proper(root) /\ Collected(updates, log) /\ log \in History
  BY DEF IInv, Collected
<1>2. DOMAIN updates # {} /\ IsUpdates(updates) /\ updates # NoUpdates
  BY <1>1, CollectedEmpty DEF Collected
<1>3. Len(log) \in Nat /\ DOMAIN log = 1 .. Len(log)
  BY <1>1 DEF History
<1>4. \A i \in DOMAIN log : log[i].val \in Values
  BY DEF NamesFiles
<1>5. f \in Paths /\ f # << >>
  BY TargetIs
<1>6. ASSUME NEW p \in Asking(log)
      PROVE  EntryAt(new, p).kind # "tree" /\ ContentOf(EntryAt(new, p)) = v(p)
  <2> DEFINE d == Front(p)
             n == Last(p)
             own == UpdatesIn(updates, d)
             h == Holding(Base(root, d), own, Len(own), n)
  <2>1. /\ p \in Files /\ p \notin Rebuilt(updates) /\ EntryAt(root, p).kind # "tree"
        /\ d \in Rebuilt(updates) /\ d \in Paths /\ n \in Names /\ Append(d, n) = p
        /\ EntryAt(root, d).kind # "blob"
    BY NamingFiles
  <2>2. EntryAt(new, p) = h
    BY <1>1, <1>2, <2>1, PlacedAsked
  <2> HIDE DEF d, n
  <2>3. IsList(own) /\ InOrder(own, d, log) /\ Len(own) \in Nat /\ DOMAIN own = 1 .. Len(own)
    BY <1>1, <2>1, OwnOrder
  <2> HIDE DEF own
  <2>4. PICK pos : Order(pos, own, d, log)
    BY <2>3 DEF InOrder, Order
  <2>5. Cut(pos, own, Len(own), Len(log) + 1)
    <3>1. \A j \in 1 .. Len(own) : pos[j] \in 1 .. Len(log)
      BY <1>3, <2>3, <2>4 DEF Order
    <3> QED
      BY <1>3, <2>3, <3>1 DEF Cut
  <2>6. Len(own) \in 0 .. Len(own) /\ Len(log) + 1 \in 1 .. Len(log) + 1
    BY <1>3, <2>3
  <2>7. h.kind # "tree" /\ ContentOf(h) = v(Append(d, n))
    <3>1. /\ Append(d, n) \in Files
          /\ EntryAt(root, Append(d, n)).kind # "tree"
      BY <2>1
    <3>2. /\ Holding(Base(root, d), own, Len(own), n).kind # "tree"
          /\ ContentOf(Holding(Base(root, d), own, Len(own), n)) =
               ValueBefore(FilesOf(root), log, Len(log) + 1, Append(d, n))
      <4> DEFINE k == Len(own)
                 i == Len(log) + 1
      <4>1. k \in 0 .. Len(own) /\ i \in 1 .. Len(log) + 1 /\ Cut(pos, own, k, i)
        BY <2>5, <2>6
      <4> HIDE DEF k, i
      <4>2. /\ Proper(root) /\ log \in History /\ IsList(own) /\ Order(pos, own, d, log)
            /\ d \in Paths /\ n \in Names /\ EntryAt(root, d).kind # "blob"
        BY <1>1, <2>1, <2>3, <2>4
      <4>3. /\ Holding(Base(root, d), own, k, n).kind # "tree"
            /\ ContentOf(Holding(Base(root, d), own, k, n)) =
                 ValueBefore(FilesOf(root), log, i, Append(d, n))
        BY <1>4, <3>1, <4>1, <4>2, ValueIs
      <4> QED
        BY <4>3 DEF k, i
    <3> QED
      BY <3>2
  <2> HIDE DEF h, new, v
  <2> QED
    BY <2>1, <2>2, <2>7
<1>7. CASE f \in Asking(log)
  BY <1>6, <1>7
<1>8. CASE f \notin Asking(log)
  <2>1. v(f) = ContentOf(EntryAt(root, f))
    <3>1. Deciding(log, Len(log) + 1, f) = {}
      <4>1. \A i \in 1 .. Len(log) : log[i].file # f
        BY <1>3, <1>8 DEF Asking
      <4> QED
        BY <1>3, <4>1 DEF Deciding
    <3>2. v(f) = FilesOf(root)[f]
      BY <3>1 DEF ValueBefore
    <3> QED
      BY <3>2 DEF FilesOf
  <2> HIDE DEF new, v
  <2>2. CASE \E p \in Asking(log) : IsPrefix(f, p)
    <3>1. f \in Rebuilt(updates)
      BY <1>1, <1>5, <1>8, <2>2, AskingIs
    <3>2. EntryAt(root, f).kind # "blob"
      BY <3>1, NamingFiles
    <3>3. IsTree(EntryAt(new, f))
      BY <1>1, <1>2, <3>1, ApplyIs DEF new
    <3>4. ContentOf(EntryAt(root, f)) = Absent /\ ContentOf(EntryAt(new, f)) = Absent
      BY <3>2, <3>3, Kinds DEF ContentOf
    <3> QED
      BY <2>1, <3>4 DEF new, v
  <2>3. CASE \E p \in Asking(log) : IsPrefix(p, f)
    <3>1. PICK p \in Asking(log) : IsPrefix(p, f)
      BY <2>3
    <3>2. p \in Paths /\ p # f /\ EntryAt(root, p).kind # "tree" /\ EntryAt(new, p).kind # "tree"
      BY <1>6, <1>8, NamingFiles
    <3>3. EntryAt(root, f) = Nothing
      BY <1>5, <3>1, <3>2, NothingBelow
    <3>4. EntryAt(new, f) = Nothing
      BY <1>5, <3>1, <3>2, NothingBelow
    <3> QED
      BY <2>1, <3>3, <3>4 DEF new, v
  <2>4. CASE \A p \in Asking(log) : ~IsPrefix(f, p) /\ ~IsPrefix(p, f)
    <3>1. EntryAt(new, f) = EntryAt(root, f)
      BY <1>1, <1>2, <1>5, <2>4, Elsewhere DEF new
    <3> QED
      BY <2>1, <3>1 DEF new, v
  <2> QED
    BY <2>2, <2>3, <2>4
<1> QED
  BY <1>7, <1>8

(* If calls name files only, updates of directories in one another come to *)
(* what module Snapshots says of one flat directory, failures included.    *)
THEOREM ApplyingIsSnapshot ==
  Spec => []ApplyIsSnapshot
<1>1. ASSUME IInv PROVE ApplyIsSnapshot
  <2> SUFFICES ASSUME log # << >>, NamesFiles
               PROVE  IF Applies(FilesOf(root), log)
                      THEN /\ Apply(root, updates) # Failed
                           /\ FilesOf(Apply(root, updates)) = ApplyTo(FilesOf(root), log)
                      ELSE Apply(root, updates) = Failed
    BY DEF ApplyIsSnapshot
  <2>1. Apply(root, updates) = Failed <=> ~Applies(FilesOf(root), log)
    BY <1>1, FailsAsSnapshot
  <2>2. ASSUME Apply(root, updates) # Failed
        PROVE  FilesOf(Apply(root, updates)) = ApplyTo(FilesOf(root), log)
    <3>1. \A f \in Files : ContentOf(EntryAt(Apply(root, updates), f)) =
                             ValueBefore(FilesOf(root), log, Len(log) + 1, f)
      BY <1>1, <2>2, CommitsAsSnapshot
    <3> QED
      BY <3>1 DEF FilesOf, ApplyTo
  <2> QED
    BY <2>1, <2>2
<1> QED
  BY <1>1, Invariant, PTL

(* The last update of a path decides what a commit has there, also of      *)
(* directories; but where something below it was named is a directory.     *)
THEOREM LastDecides ==
  Spec => []LastUpdateDecides
<1>1. ASSUME IInv PROVE LastUpdateDecides
  <2> DEFINE new == Apply(root, updates)
  <2> SUFFICES ASSUME updates # NoUpdates, new # Failed, NEW i \in DOMAIN log,
                      \A j \in i + 1 .. Len(log) : log[j].file # log[i].file
               PROVE  Noted(EntryAt(new, log[i].file)) =
                        IF \E q \in Touched : IsPrefix(log[i].file, q) /\ log[i].file # q
                        THEN Directory ELSE log[i].val
    BY DEF LastUpdateDecides
  <2> DEFINE p == log[i].file
             d == Front(p)
             n == Last(p)
             own == UpdatesIn(updates, d)
  <2>1. /\ Proper(root) /\ Collected(updates, log) /\ log \in History
        /\ Touched = Asking(log) /\ p \in Asking(log)
    BY <1>1 DEF IInv, Collected, Touched, Asking
  <2>2. DOMAIN updates # {} /\ IsUpdates(updates)
    BY <2>1, CollectedEmpty DEF Collected
  <2>3. Len(log) \in Nat /\ DOMAIN log = 1 .. Len(log)
    BY <2>1 DEF History
  <2>4. /\ p \in Files /\ p \in Paths /\ p # << >>
        /\ d \in Paths /\ n \in Names /\ Append(d, n) = p
    BY <2>1, AskingIs, TargetIs
  <2>5. \A q \in Paths : q \in Rebuilt(updates) <=> \E s \in Touched : IsPrefix(q, s) /\ q # s
    BY <2>1, AskingIs
  <2> HIDE DEF new, p, d, n
  <2>6. CASE \E q \in Touched : IsPrefix(p, q) /\ p # q
    <3>1. p \in Rebuilt(updates)
      BY <2>4, <2>5, <2>6
    <3>2. IsTree(EntryAt(new, p))
      BY <2>1, <2>2, <3>1, ApplyIs DEF new
    <3>3. Noted(EntryAt(new, p)) = Directory
      BY <3>2, Kinds DEF Noted
    <3> QED
      BY <2>6, <3>3 DEF p
  <2>7. CASE ~ \E q \in Touched : IsPrefix(p, q) /\ p # q
    <3>1. p \notin Rebuilt(updates)
      BY <2>4, <2>5, <2>7
    <3>2. EntryAt(new, p) = Holding(Base(root, d), own, Len(own), n)
      BY <2>1, <3>1, PlacedAsked DEF new, d, n
    <3> DEFINE k == Len(own)
               m == Len(log) + 1
               J == Newest(own, k, n)
    <3>3. IsList(own) /\ InOrder(own, d, log) /\ k \in Nat /\ DOMAIN own = 1 .. k
      BY <2>1, <2>4, OwnOrder
    <3> HIDE DEF own
    <3>4. PICK pos : Order(pos, own, d, log)
      BY <3>3 DEF InOrder, Order
    <3>5. k \in 0 .. Len(own) /\ m \in 1 .. Len(log) + 1 /\ Cut(pos, own, k, m)
      <4>1. \A j \in 1 .. k : pos[j] \in 1 .. Len(log)
        BY <2>3, <3>3, <3>4 DEF Order
      <4> QED
        BY <2>3, <3>3, <4>1 DEF Cut
    <3>6. i \in Deciding(log, m, p)
      BY <2>3 DEF Deciding, p
    <3> HIDE DEF k, m
    <3>7. \A a : a \in Deciding(log, m, Append(d, n)) <=> \E j \in Newest(own, k, n) : a = pos[j]
      <4>1. log \in History /\ IsList(own) /\ d \in Paths /\ n \in Names /\ Order(pos, own, d, log)
        BY <2>1, <2>4, <3>3, <3>4
      <4> QED
        BY <3>5, <4>1, DecidingIs
    <3>8. PICK j \in J : i = pos[j]
      BY <2>4, <3>6, <3>7
    <3>9. j \in DOMAIN own /\ (CHOOSE a \in J : TRUE) = j
      <4>1. \A a, b \in J : a = b
        BY <3>3, NewestIs
      <4>2. J \subseteq DOMAIN own
        BY <3>3 DEF Newest
      <4> HIDE DEF J
      <4> QED
        BY <3>8, <4>1, <4>2
    <3>10. EntryAt(new, p) = own[j].entry
      BY <3>2, <3>8, <3>9 DEF Holding, k
    <3>11. log[i] = [file |-> Append(d, own[j].name), val |-> Noted(own[j].entry)]
      BY <3>4, <3>8, <3>9 DEF Order
    <3>12. log[i].val = Noted(EntryAt(new, p))
      BY <3>10, <3>11
    <3> QED
      BY <2>7, <3>12 DEF p
  <2> QED
    BY <2>6, <2>7 DEF p, new
<1> QED
  BY <1>1, Invariant, PTL
===============================================================================
