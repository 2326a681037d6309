--------------------------- MODULE ListNodesProofs ---------------------------
(***************************************************************************)
(* Theorems about the nodes of the client lists, for any number of         *)
(* addresses, any rows and any order of calls: no node is lost and none is *)
(* met that was freed.                                                     *)
(***************************************************************************)
EXTENDS ListNodes, FiniteSetTheorems, SequenceTheorems, WellFoundedInduction, TLAPS

\* The functions of a list are called in any order.
NodesSpec == NodesInit /\ [][NodesNext]_nodeVars

---------------------------------------------------------------------------
(* Induction along a list, and how long one can be.                        *)

\* A set of numbers has a least one.
LEMMA LeastNumber ==
  ASSUME NEW S, S \subseteq Nat, S # {}
  PROVE  \E i \in S : \A j \in S : i <= j
<1>1. PICK x \in S : \A y \in S : ~(<<y, x>> \in OpToRel(<, Nat))
  BY WFMin, NatLessThanWellFounded
<1>2. \A y \in S : ~(y < x)
  BY <1>1 DEF OpToRel
<1>3. QED
  BY <1>2

LEMMA MaxRowsType == MaxRows \in Nat
BY NodesAssumption, FS_CardinalityType DEF MaxRows

\* s lists the n addresses of a set once each.
Lists(n, s, S) ==
  /\ s \in [1 .. n -> S]
  /\ \A j, k \in 1 .. n : s[j] = s[k] => j = k
  /\ \A a \in S : \E k \in 1 .. n : s[k] = a

LEMMA ListsCount ==
  ASSUME NEW n \in Nat, NEW S, NEW s, Lists(n, s, S)
  PROVE  IsFiniteSet(S) /\ Cardinality(S) = n
<1>1. s \in Bijection(1 .. n, S)
  BY DEF Lists, Bijection, Injection, Surjection, IsInjective
<1>2. ExistsBijection(1 .. n, S)
  BY <1>1 DEF ExistsBijection
<1>3. QED
  BY <1>2, FS_CountingElements, FS_NatBijection

---------------------------------------------------------------------------
(* The nodes of a list.                                                    *)

\* Each node has its two fields.
Nodes == /\ node = [a \in Addrs |-> [data |-> node[a].data, next |-> node[a].next]]

\* The nodes s[1], s[2], ... are the list: n nodes, one after the other, and no
\* other is allocated.
OnList(n, s) ==
  /\ Lists(n, s, allocated)
  /\ head = IF n = 0 THEN NULL ELSE s[1]
  /\ \A k \in 1 .. n : node[s[k]].next = IF k = n THEN NULL ELSE s[k + 1]

\* The n rows they hold.
RowsAt(n, s) == [k \in 1 .. n |-> node[s[k]].data]

ListOf(n, rows) == \E s : OnList(n, s) /\ rows = RowsAt(n, s)

NodesInv ==
  /\ Nodes
  /\ allocated \subseteq Addrs
  /\ InUse => \E n \in Nat : \E s : OnList(n, s)
  /\ ~InUse => allocated = {}

\* Where the walk of the C code is after i steps.
LEMMA Walked ==
  ASSUME NodesInv, NEW n \in Nat, NEW s, OnList(n, s)
  PROVE  /\ n <= MaxRows
         /\ NodeAt = [i \in 0 .. MaxRows |-> IF i < n THEN s[i + 1] ELSE NULL]
<1> DEFINE w == [i \in 0 .. MaxRows |-> IF i < n THEN s[i + 1] ELSE NULL]
           Step(f) == [i \in 0 .. MaxRows |->
                        IF i = 0 THEN head
                        ELSE IF f[i - 1] = NULL THEN NULL ELSE node[f[i - 1]].next]
<1>1. n <= MaxRows
  <2>1. Cardinality(allocated) = n
    BY ListsCount DEF OnList
  <2>2. QED
    BY <2>1, NodesAssumption, FS_Subset DEF MaxRows, NodesInv
<1>2. \A k \in 1 .. n : s[k] \in Addrs /\ s[k] # NULL
  BY NodesAssumption DEF OnList, Lists, NodesInv
<1>3. w = Step(w)
  <2>1. ASSUME NEW i \in 0 .. MaxRows
        PROVE  w[i] = Step(w)[i]
    <3>1. CASE i = 0
      BY <3>1, MaxRowsType DEF OnList
    <3>2. CASE i > 0 /\ i - 1 < n
      <4>1. i - 1 \in 0 .. MaxRows /\ i \in 1 .. n
        BY <3>2, MaxRowsType
      <4>2. w[i - 1] = s[i]
        BY <3>2, <4>1
      <4>3. Step(w)[i] = node[s[i]].next
        BY <1>2, <3>2, <4>1, <4>2
      <4>4. node[s[i]].next = IF i = n THEN NULL ELSE s[i + 1]
        BY <4>1 DEF OnList
      <4>5. QED
        BY <3>2, <4>3, <4>4
    <3>3. CASE i > 0 /\ ~(i - 1 < n)
      <4>1. i - 1 \in 0 .. MaxRows
        BY <3>3, MaxRowsType
      <4>2. w[i - 1] = NULL /\ w[i] = NULL
        BY <3>3, <4>1
      <4>3. QED
        BY <3>3, <4>2
    <3>4. QED
      BY <3>1, <3>2, <3>3, MaxRowsType
  <2>2. QED
    BY <2>1
<1>4. ASSUME NEW f, f = Step(f)
      PROVE  f = w
  <2> DEFINE Bad == {i \in 0 .. MaxRows : f[i] # w[i]}
  <2>1. Bad = {}
    <3>1. SUFFICES ASSUME Bad # {} PROVE FALSE
      OBVIOUS
    <3>2. PICK i \in Bad : \A j \in Bad : i <= j
      <4>1. Bad \subseteq Nat
        BY MaxRowsType
      <4>2. QED
        BY <3>1, <4>1, LeastNumber
    <3>3. f[i] = Step(f)[i] /\ w[i] = Step(w)[i]
      BY <1>3, <1>4
    <3>4. CASE i = 0
      BY <3>2, <3>3, <3>4
    <3>5. CASE i # 0
      <4>1. i - 1 \in 0 .. MaxRows /\ i - 1 \notin Bad
        BY <3>2, <3>5, MaxRowsType
      <4>2. f[i - 1] = w[i - 1]
        BY <4>1
      <4>3. Step(f)[i] = Step(w)[i]
        BY <4>2
      <4>4. QED
        BY <3>2, <3>3, <4>3
    <3>6. QED
      BY <3>4, <3>5
  <2>2. f = [i \in 0 .. MaxRows |-> f[i]]
    BY <1>4
  <2>3. QED
    BY <2>1, <2>2
<1>5. NodeAt = CHOOSE f : f = Step(f)
  BY DEF NodeAt
<1>6. QED
  BY <1>1, <1>3, <1>4, <1>5

\* The length is counted by a walk, and the nodes met on it are the list's.
LEMMA LengthCounted ==
  ASSUME NodesInv, NEW n \in Nat, NEW s, OnList(n, s)
  PROVE  /\ get_length_list = n
         /\ \A i \in 0 .. MaxRows : NodeAt[i] = IF i < n THEN s[i + 1] ELSE NULL
         /\ \A i \in 0 .. MaxRows : NodeAt[i] # NULL <=> i < n
<1>1. /\ n <= MaxRows
      /\ \A i \in 0 .. MaxRows : NodeAt[i] = IF i < n THEN s[i + 1] ELSE NULL
  BY Walked
<1>2. \A k \in 1 .. n : s[k] # NULL
  BY NodesAssumption DEF OnList, Lists, NodesInv
<1>3. \A i \in 0 .. MaxRows : NodeAt[i] # NULL <=> i < n
  <2>1. ASSUME NEW i \in 0 .. MaxRows, i < n
        PROVE  s[i + 1] # NULL
    <3>1. i + 1 \in 1 .. n
      BY <2>1, MaxRowsType
    <3>2. QED
      BY <1>2, <3>1
  <2>2. QED
    BY <1>1, <2>1
<1>4. {i \in 0 .. MaxRows : NodeAt[i] # NULL} = 0 .. n - 1
  BY <1>1, <1>3, MaxRowsType
<1>5. Cardinality(0 .. n - 1) = n
  BY FS_Interval
<1>6. QED
  BY <1>1, <1>3, <1>4, <1>5 DEF get_length_list

---------------------------------------------------------------------------
(* Each function of the list.                                              *)

LEMMA InitNodes == NodesInit => NodesInv
<1> SUFFICES ASSUME NodesInit PROVE NodesInv
  OBVIOUS
<1>1. OnList(0, <<>>)
  BY DEF NodesInit, OnList, Lists
<1>2. Nodes
  BY DEF NodesInit, Nodes, Blank
<1>3. QED
  BY <1>1, <1>2 DEF NodesInv, InUse, NodesInit

\* A call of another function leaves the list in use.
LEMMA StillInUse ==
  ASSUME NEW call, NEW r, Answered(call, r), call # <<"free">>
  PROVE  InUse /\ InUse'
BY DEF Answered, Promise!Answer, InUse

LEMMA CallNames ==
  /\ \A x : <<"add", x>> # <<"free">> /\ <<"delete", x>> # <<"free">>
  /\ \A x : <<"topic", x>> # <<"free">> /\ <<"name", x>> # <<"free">>
  /\ \A x : <<"data", x>> # <<"free">> /\ <<"fetch", x>> # <<"free">>
  /\ \A x, y : <<"change", x, y>> # <<"free">>
OBVIOUS

\* A list in use has rows.
LEMMA SomeRows ==
  ASSUME NodesInv, InUse
  PROVE  \E n \in Nat : \E rows : ListOf(n, rows)
BY DEF NodesInv, ListOf

LEMMA AddKeepsNodes ==
  ASSUME NodesInv, NEW row, add_client(row), NEW n \in Nat, NEW rows, ListOf(n, rows)
  PROVE  /\ NodesInv'
         /\ ListOf(n + 1, [k \in 1 .. n + 1 |-> IF k = n + 1 THEN row ELSE rows[k]])'
<1>1. PICK a \in Addrs \ allocated :
        /\ allocated' = allocated \cup {a}
        /\ IF head = NULL
           THEN /\ head' = a
                /\ node' = [node EXCEPT ![a] = [data |-> row, next |-> NULL]]
           ELSE /\ node' = [node EXCEPT ![a] = [data |-> row, next |-> NULL],
                                        ![LastNode] = Linked(LastNode, a)]
                /\ UNCHANGED head
        /\ Answered(<<"add", row>>, Promise!CMS_SUCCESS)
  BY DEF add_client
<1>2. InUse /\ InUse'
  BY <1>1, StillInUse, CallNames
<1>3. PICK s : OnList(n, s) /\ rows = RowsAt(n, s)
  BY DEF ListOf
<1>4. OnList(n, s)
  BY <1>3
<1> DEFINE t == [k \in 1 .. n + 1 |-> IF k = n + 1 THEN a ELSE s[k]]
           new == [k \in 1 .. n + 1 |-> IF k = n + 1 THEN row ELSE rows[k]]
<1> USE DEF RowsAt
<1>5. Lists(n + 1, t, allocated')
  <2>1. /\ \A k \in 1 .. n : s[k] \in allocated
        /\ \A j, k \in 1 .. n : s[j] = s[k] => j = k
        /\ \A b \in allocated : \E k \in 1 .. n : s[k] = b
    BY <1>4 DEF OnList, Lists
  <2>2. \A k \in 1 .. n + 1 : k = n + 1 \/ k \in 1 .. n
    OBVIOUS
  <2>3. \A k \in 1 .. n + 1 : t[k] \in allocated'
    BY <1>1, <2>1, <2>2
  <2>4. \A j, k \in 1 .. n + 1 : t[j] = t[k] => j = k
    BY <1>1, <2>1, <2>2
  <2>5. ASSUME NEW b \in allocated'
        PROVE  \E k \in 1 .. n + 1 : t[k] = b
    <3>1. CASE b = a
      <4>1. n + 1 \in 1 .. n + 1 /\ t[n + 1] = a
        OBVIOUS
      <4>2. QED
        BY <3>1, <4>1
    <3>2. CASE b \in allocated
      <4>1. PICK k \in 1 .. n : s[k] = b
        BY <2>1, <3>2
      <4>2. k \in 1 .. n + 1 /\ t[k] = b
        BY <4>1
      <4>3. QED
        BY <4>2
    <3>3. QED
      BY <1>1, <2>5, <3>1, <3>2
  <2>6. QED
    BY <2>3, <2>4, <2>5 DEF Lists
<1>6. CASE n = 0
  <2>1. head = NULL
    BY <1>4, <1>6 DEF OnList
  <2>2. Nodes'
    BY <1>1, <2>1 DEF Nodes, NodesInv
  <2>3. OnList(n + 1, t)'
    BY <1>1, <1>5, <1>6, <2>1 DEF OnList, Nodes, NodesInv
  <2>4. node'[a].data = row
    BY <1>1, <2>1 DEF Nodes, NodesInv
  <2>5. ListOf(n + 1, new)'
    <3>1. new = [k \in 1 .. n + 1 |-> node'[t[k]].data]
      BY <1>6, <2>4
    <3>2. QED
      BY <2>3, <3>1 DEF ListOf
  <2>6. QED
    BY <1>1, <1>2, <2>2, <2>3, <2>5 DEF NodesInv
<1>7. CASE n # 0
  <2>1. head # NULL /\ s[n] \in allocated /\ s[n] \in Addrs
    BY <1>4, <1>7, NodesAssumption DEF OnList, Lists, NodesInv
  <2>2. LastNode = s[n]
    <3>1. n - 1 \in 0 .. MaxRows /\ n <= MaxRows
      BY <1>4, <1>7, Walked, MaxRowsType
    <3>2. QED
      BY <1>4, <1>7, <3>1, LengthCounted DEF LastNode
  <2>3. node' = [node EXCEPT ![a] = [data |-> row, next |-> NULL], ![s[n]] = Linked(s[n], a)]
    BY <1>1, <2>1, <2>2
  <2>4. Nodes' /\ node'[a].next = NULL /\ node'[s[n]].next = a
        /\ node'[a].data = row /\ node'[s[n]].data = node[s[n]].data
        /\ \A b \in Addrs \ {a, s[n]} : node'[b] = node[b]
    BY <1>1, <2>1, <2>3 DEF Nodes, NodesInv, Linked
  <2>5. ASSUME NEW k \in 1 .. n + 1
        PROVE  node'[t[k]].next = IF k = n + 1 THEN NULL ELSE t[k + 1]
    <3>1. CASE k = n + 1
      BY <2>4, <3>1
    <3>2. CASE k = n
      BY <1>7, <2>4, <3>2
    <3>3. CASE k < n
      <4>1. k \in 1 .. n /\ n \in 1 .. n /\ k # n /\ k + 1 \in 1 .. n
        BY <3>3
      <4>2. s[k] \in Addrs \ {a, s[n]}
        <5>1. s[k] \in allocated /\ s[k] # s[n]
          BY <1>4, <4>1 DEF OnList, Lists
        <5>2. QED
          BY <1>1, <5>1 DEF NodesInv
      <4>3. node[s[k]].next = s[k + 1]
        BY <1>4, <4>1 DEF OnList
      <4>4. QED
        BY <2>4, <4>1, <4>2, <4>3
    <3>4. QED
      BY <3>1, <3>2, <3>3
  <2>6. head' = t[1]
    BY <1>1, <1>4, <1>7, <2>1 DEF OnList
  <2>7. OnList(n + 1, t)'
    BY <1>5, <2>5, <2>6 DEF OnList
  <2>8. ASSUME NEW k \in 1 .. n + 1
        PROVE  new[k] = node'[t[k]].data
    <3>1. CASE k = n + 1
      BY <2>4, <3>1
    <3>2. CASE k \in 1 .. n
      <4>1. s[k] \in Addrs \ {a} /\ t[k] = s[k] /\ new[k] = node[s[k]].data
        <5>1. s[k] \in allocated
          BY <1>3, <3>2 DEF OnList, Lists
        <5>2. QED
          BY <1>1, <1>3, <3>2, <5>1 DEF NodesInv
      <4>2. QED
        BY <2>4, <4>1
    <3>3. QED
      BY <3>1, <3>2
  <2>9. new = [k \in 1 .. n + 1 |-> node'[t[k]].data]
    BY <2>8
  <2>10. ListOf(n + 1, new)'
    BY <2>7, <2>9 DEF ListOf
  <2>11. QED
    BY <1>1, <1>2, <2>4, <2>7, <2>10 DEF NodesInv
<1>8. QED
  BY <1>6, <1>7

\* Node i + 1 of the list is freed, and the one before it set to the one behind it.
Unlinked(n, s, i) ==
  /\ allocated' = allocated \ {s[i + 1]}
  /\ head' = IF i > 0 THEN head ELSE IF n = 1 THEN NULL ELSE s[2]
  /\ node' = IF i = 0 THEN [node EXCEPT ![s[1]] = Blank]
             ELSE [node EXCEPT ![s[i]] = Linked(s[i], IF i = n - 1 THEN NULL ELSE s[i + 2]),
                               ![s[i + 1]] = Blank]

\* n rows without row i + 1.
Without(n, rows, i) == [k \in 1 .. n - 1 |-> IF k <= i THEN rows[k] ELSE rows[k + 1]]

LEMMA UnlinkKeepsNodes ==
  ASSUME NodesInv, NEW n \in Nat, NEW s, NEW rows, OnList(n, s), rows = RowsAt(n, s),
         NEW i \in 0 .. n - 1, Unlinked(n, s, i), InUse'
  PROVE  NodesInv' /\ ListOf(n - 1, Without(n, rows, i))'
<1> DEFINE t == [k \in 1 .. n - 1 |-> IF k <= i THEN s[k] ELSE s[k + 1]]
           new == [k \in 1 .. n - 1 |-> IF k <= i THEN rows[k] ELSE rows[k + 1]]
<1> USE DEF Unlinked, RowsAt
<1>1. \A k \in 1 .. n : s[k] \in allocated /\ s[k] \in Addrs
  BY DEF OnList, Lists, NodesInv
<1>2. \A j, k \in 1 .. n : s[j] = s[k] => j = k
  BY DEF OnList, Lists
<1>3. Lists(n - 1, t, allocated')
  <2>1. \A k \in 1 .. n - 1 : t[k] \in allocated'
    BY <1>1, <1>2
  <2>2. \A j, k \in 1 .. n - 1 : t[j] = t[k] => j = k
    BY <1>2
  <2>3. ASSUME NEW a \in allocated'
        PROVE  \E k \in 1 .. n - 1 : t[k] = a
    <3>1. PICK k \in 1 .. n : s[k] = a
      BY <2>3 DEF OnList, Lists
    <3>2. k # i + 1
      BY <2>3, <3>1
    <3>3. CASE k <= i
      <4>1. k \in 1 .. n - 1 /\ t[k] = a
        BY <3>1, <3>3
      <4>2. QED
        BY <4>1
    <3>4. CASE k > i + 1
      <4>1. k - 1 \in 1 .. n - 1 /\ t[k - 1] = a
        BY <3>1, <3>4
      <4>2. QED
        BY <4>1
    <3>5. QED
      BY <3>2, <3>3, <3>4
  <2>4. QED
    BY <2>1, <2>2, <2>3 DEF Lists
<1>4. /\ Nodes'
      /\ i > 0 => node'[s[i]].next = IF i = n - 1 THEN NULL ELSE s[i + 2]
      /\ \A b \in Addrs : (b # s[i + 1] /\ (i > 0 => b # s[i])) => node'[b] = node[b]
      /\ \A b \in Addrs : b # s[i + 1] => node'[b].data = node[b].data
  <2> PICK d : Blank = [data |-> d, next |-> NULL]
    BY DEF Blank
  <2>1. CASE i = 0
    <3>1. s[1] \in Addrs /\ node' = [node EXCEPT ![s[1]] = Blank]
      BY <1>1, <2>1
    <3>2. QED
      BY <2>1, <3>1 DEF Nodes, NodesInv
  <2>2. CASE i > 0
    <3>1. s[i] \in Addrs /\ s[i + 1] \in Addrs /\ s[i] # s[i + 1]
      BY <1>1, <1>2, <2>2
    <3>2. PICK m : m = IF i = n - 1 THEN NULL ELSE s[i + 2]
      OBVIOUS
    <3>3. node' = [node EXCEPT ![s[i]] = [data |-> node[s[i]].data, next |-> m],
                               ![s[i + 1]] = [data |-> d, next |-> NULL]]
      BY <2>2, <3>2 DEF Linked
    <3>4. node = [b \in Addrs |-> [data |-> node[b].data, next |-> node[b].next]]
      BY DEF Nodes, NodesInv
    <3>5. node' = [b \in Addrs |->
                     IF b = s[i + 1] THEN [data |-> d, next |-> NULL]
                     ELSE IF b = s[i] THEN [data |-> node[s[i]].data, next |-> m]
                     ELSE [data |-> node[b].data, next |-> node[b].next]]
      BY <3>1, <3>3, <3>4
    <3>6. Nodes'
      BY <3>5 DEF Nodes
    <3>7. node'[s[i]].next = m
      BY <3>1, <3>5
    <3>8. \A b \in Addrs : b # s[i + 1] /\ b # s[i] => node'[b] = node[b]
      BY <3>4, <3>5
    <3>9. \A b \in Addrs : b # s[i + 1] => node'[b].data = node[b].data
      BY <3>4, <3>5
    <3>10. QED
      BY <2>2, <3>2, <3>6, <3>7, <3>8, <3>9
  <2>3. i = 0 \/ i > 0
    OBVIOUS
  <2>4. QED
    BY <2>1, <2>2, <2>3, Zenon
<1>5. ASSUME NEW k \in 1 .. n - 1
      PROVE  node'[t[k]].next = IF k = n - 1 THEN NULL ELSE t[k + 1]
  <2>1. CASE k < i
    <3>1. k \in 1 .. n /\ k + 1 \in 1 .. n /\ i \in 1 .. n /\ i + 1 \in 1 .. n /\ k # n
      BY <2>1
    <3>2. s[k] # s[i] /\ s[k] # s[i + 1] /\ s[k] \in Addrs
      BY <1>1, <1>2, <2>1, <3>1
    <3>3. node'[s[k]].next = s[k + 1]
      BY <1>4, <3>1, <3>2 DEF OnList
    <3>4. QED
      BY <2>1, <3>3
  <2>2. CASE k = i
    BY <1>4, <2>2
  <2>3. CASE k > i
    <3>1. k + 1 \in 1 .. n /\ i + 1 \in 1 .. n /\ (i > 0 => i \in 1 .. n)
      BY <2>3
    <3>2. s[k + 1] # s[i + 1] /\ (i > 0 => s[k + 1] # s[i]) /\ s[k + 1] \in Addrs
      BY <1>1, <1>2, <2>3, <3>1
    <3>3. node[s[k + 1]].next = IF k + 1 = n THEN NULL ELSE s[k + 1 + 1]
      BY <3>1 DEF OnList
    <3>4. node'[s[k + 1]].next = IF k + 1 = n THEN NULL ELSE s[k + 1 + 1]
      BY <1>4, <3>2, <3>3
    <3>5. t[k] = s[k + 1] /\ (k < n - 1 => t[k + 1] = s[k + 1 + 1])
      BY <2>3
    <3>6. QED
      BY <3>4, <3>5
  <2>4. QED
    BY <2>1, <2>2, <2>3
<1>6. head' = IF n - 1 = 0 THEN NULL ELSE t[1]
  BY DEF OnList
<1>7. OnList(n - 1, t)'
  BY <1>3, <1>5, <1>6 DEF OnList
<1>8. ASSUME NEW k \in 1 .. n - 1
      PROVE  new[k] = node'[t[k]].data
  <2>1. CASE k <= i
    <3>1. k \in 1 .. n /\ i + 1 \in 1 .. n /\ k # i + 1
      BY <2>1
    <3>2. s[k] \in Addrs /\ s[k] # s[i + 1] /\ rows[k] = node[s[k]].data
      BY <1>1, <1>2, <3>1
    <3>3. QED
      BY <1>4, <2>1, <3>2
  <2>2. CASE k > i
    <3>1. k + 1 \in 1 .. n /\ i + 1 \in 1 .. n /\ k + 1 # i + 1
      BY <2>2
    <3>2. s[k + 1] \in Addrs /\ s[k + 1] # s[i + 1] /\ rows[k + 1] = node[s[k + 1]].data
      BY <1>1, <1>2, <3>1
    <3>3. new[k] = rows[k + 1] /\ t[k] = s[k + 1]
      BY <2>2
    <3>4. QED
      BY <1>4, <3>2, <3>3
  <2>3. QED
    BY <2>1, <2>2
<1>9. new = [k \in 1 .. n - 1 |-> node'[t[k]].data]
  <2>1. new = [k \in 1 .. n - 1 |-> new[k]]
    OBVIOUS
  <2> HIDE DEF new, t
  <2>2. QED
    BY <1>8, <2>1
<1>10. ListOf(n - 1, Without(n, rows, i))'
  BY <1>7, <1>9 DEF ListOf, Without
<1>11. QED
  BY <1>4, <1>7, <1>10 DEF NodesInv

LEMMA DeleteKeepsNodes ==
  ASSUME NodesInv, NEW n \in Nat, NEW rows, ListOf(n, rows), NEW i \in 0 .. MaxRows,
         (i = 0 /\ DeleteHead) \/ DeleteWalking(i) \/ DeleteCounting(i)
  PROVE  /\ i < n
         /\ NodesInv'
         /\ ListOf(n - 1, Without(n, rows, i))'
<1>1. InUse /\ InUse'
  BY StillInUse, CallNames DEF DeleteHead, DeleteWalking, DeleteCounting
<1>2. PICK s : OnList(n, s) /\ rows = RowsAt(n, s)
  BY DEF ListOf
<1>3. OnList(n, s)
  BY <1>2
<1>4. \A k \in 0 .. MaxRows : NodeAt[k] = IF k < n THEN s[k + 1] ELSE NULL
  BY <1>3, LengthCounted
<1>5. /\ get_length_list = n
      /\ \A k \in 0 .. MaxRows : NodeAt[k] # NULL <=> k < n
  BY <1>3, LengthCounted
<1>6. CASE i = 0 /\ DeleteHead
  <2>1. n > 0 /\ head = s[1] /\ node[s[1]].next = IF n = 1 THEN NULL ELSE s[2]
    BY <1>3, <1>6 DEF DeleteHead, OnList
  <2>2. 0 \in 0 .. n - 1 /\ 0 + 1 = 1
    BY <2>1
  <2>3. /\ allocated' = allocated \ {s[0 + 1]}
        /\ head' = IF 0 > 0 THEN head ELSE IF n = 1 THEN NULL ELSE s[2]
        /\ node' = IF 0 = 0 THEN [node EXCEPT ![s[1]] = Blank]
                   ELSE [node EXCEPT ![s[0]] = Linked(s[0], IF 0 = n - 1 THEN NULL ELSE s[0 + 2]),
                                     ![s[0 + 1]] = Blank]
    BY <1>6, <2>1, <2>2 DEF DeleteHead
  <2>4. i \in 0 .. n - 1 /\ Unlinked(n, s, i)
    BY <1>6, <2>2, <2>3 DEF Unlinked
  <2>5. QED
    BY <1>1, <1>2, <2>4, UnlinkKeepsNodes
<1>7. CASE DeleteWalking(i) \/ DeleteCounting(i)
  <2>1. i > 0 /\ i \in 0 .. n - 1 /\ i - 1 \in 0 .. MaxRows
    BY <1>5, <1>7, MaxRowsType DEF DeleteWalking, DeleteCounting
  <2>2. NodeAt[i] = s[i + 1] /\ NodeAt[i - 1] = s[i]
    BY <1>4, <2>1
  <2>3. node[s[i + 1]].next = IF i = n - 1 THEN NULL ELSE s[i + 2]
    <3>1. i + 1 \in 1 .. n
      BY <2>1
    <3>2. QED
      BY <1>3, <2>1, <3>1 DEF OnList
  <2>4. node' = [node EXCEPT ![s[i]] = Linked(s[i], IF i = n - 1 THEN NULL ELSE s[i + 2]),
                             ![s[i + 1]] = Blank]
    <3>1. CASE DeleteWalking(i)
      BY <3>1, <2>2, <2>3 DEF DeleteWalking
    <3>2. CASE DeleteCounting(i)
      BY <3>2, <1>5, <2>2, <2>3 DEF DeleteCounting
    <3>3. QED
      BY <1>7, <3>1, <3>2
  <2>5. head' = head /\ allocated' = allocated \ {s[i + 1]}
    BY <1>7, <2>2 DEF DeleteWalking, DeleteCounting
  <2>6. /\ head' = IF i > 0 THEN head ELSE IF n = 1 THEN NULL ELSE s[2]
        /\ node' = IF i = 0 THEN [node EXCEPT ![s[1]] = Blank]
                   ELSE [node EXCEPT ![s[i]] = Linked(s[i], IF i = n - 1 THEN NULL ELSE s[i + 2]),
                                     ![s[i + 1]] = Blank]
    BY <2>1, <2>4, <2>5
  <2>7. Unlinked(n, s, i)
    BY <2>5, <2>6 DEF Unlinked
  <2>8. QED
    BY <1>1, <1>2, <2>1, <2>7, UnlinkKeepsNodes
<1>8. QED
  BY <1>6, <1>7

LEMMA ChangeKeepsNodes ==
  ASSUME NodesInv, NEW n \in Nat, NEW rows, ListOf(n, rows),
         NEW i \in 0 .. MaxRows, i < n, NEW new,
         node' = [node EXCEPT ![NodeAt[i]] = [data |-> new, next |-> @.next]],
         UNCHANGED <<head, allocated>>, InUse'
  PROVE  NodesInv' /\ ListOf(n, [rows EXCEPT ![i + 1] = new])'
<1>1. PICK s : OnList(n, s) /\ rows = RowsAt(n, s)
  BY DEF ListOf
<1> USE DEF RowsAt
<1>2. NodeAt[i] = s[i + 1] /\ i + 1 \in 1 .. n
  BY <1>1, LengthCounted
<1>3. /\ \A k \in 1 .. n : s[k] \in Addrs
      /\ \A j, k \in 1 .. n : s[j] = s[k] => j = k
  BY <1>1 DEF OnList, Lists, NodesInv
<1>4. /\ Nodes'
      /\ \A a \in Addrs : node'[a].next = node[a].next
      /\ \A a \in Addrs : node'[a].data = IF a = s[i + 1] THEN new ELSE node[a].data
  <2>1. s[i + 1] \in Addrs
    BY <1>2, <1>3
  <2>2. node' = [node EXCEPT ![s[i + 1]] = [data |-> new, next |-> node[s[i + 1]].next]]
    BY <1>2
  <2>3. QED
    BY <2>1, <2>2 DEF Nodes, NodesInv
<1>5. OnList(n, s)'
  BY <1>1, <1>4 DEF OnList, Lists, NodesInv
<1>6. \A k \in 1 .. n : node'[s[k]].data = IF k = i + 1 THEN new ELSE rows[k]
  BY <1>1, <1>2, <1>3, <1>4
<1>7. [rows EXCEPT ![i + 1] = new] = [k \in 1 .. n |-> node'[s[k]].data]
  BY <1>1, <1>6
<1>8. QED
  BY <1>4, <1>5, <1>7 DEF NodesInv, ListOf

\* A search, and a call that finds nothing to change.
LEMMA LookKeepsNodes ==
  ASSUME NodesInv, UNCHANGED <<head, node, allocated>>, InUse <=> InUse'
  PROVE  NodesInv' /\ \A n, rows : ListOf(n, rows) <=> ListOf(n, rows)'
BY DEF NodesInv, Nodes, OnList, ListOf, RowsAt

LEMMA FreeKeepsNodes ==
  ASSUME NodesInv, free_list
  PROVE  NodesInv'
<1>1. InUse /\ ~InUse'
  BY DEF free_list, Answered, Promise!Answer, InUse
<1>2. PICK n \in Nat : \E s : OnList(n, s)
  BY <1>1 DEF NodesInv
<1>3. PICK s : OnList(n, s)
  BY <1>2
<1>4. n <= MaxRows /\ \A i \in 0 .. MaxRows : NodeAt[i] = IF i < n THEN s[i + 1] ELSE NULL
  BY <1>3, Walked, LengthCounted
<1>5. ASSUME NEW a \in allocated
      PROVE  \E i \in 0 .. MaxRows : NodeAt[i] = a
  <2>1. PICK k \in 1 .. n : s[k] = a
    BY <1>3 DEF OnList, Lists
  <2>2. k - 1 \in 0 .. MaxRows /\ NodeAt[k - 1] = a
    BY <1>4, <2>1, MaxRowsType
  <2>3. QED
    BY <2>2
<1>6. allocated' = {}
  BY <1>5 DEF free_list
<1>7. Nodes'
  BY <1>6 DEF free_list, Nodes, Blank
<1>8. QED
  BY <1>1, <1>6, <1>7 DEF NodesInv

LEMMA NodesStep == NodesInv /\ [NodesNext]_nodeVars => NodesInv'
<1> SUFFICES ASSUME NodesInv, [NodesNext]_nodeVars
             PROVE  NodesInv'
  OBVIOUS
<1>1. ASSUME NEW row \in AddedRows, add_client(row)
      PROVE  NodesInv'
  <2>1. InUse
    BY <1>1 DEF add_client, Answered
  <2>2. QED
    BY <1>1, <2>1, SomeRows, AddKeepsNodes
<1>2. ASSUME NEW row \in AddedRows,
             get_index_by_topic(row.topic) \/ get_index_by_name(row.client_name)
               \/ get_data_by_name(row.client_name)
      PROVE  NodesInv'
  <2>1. InUse /\ InUse'
    BY <1>2, StillInUse, CallNames DEF get_index_by_topic, get_index_by_name, get_data_by_name
  <2>2. UNCHANGED <<head, node, allocated>>
    BY <1>2 DEF get_index_by_topic, get_index_by_name, get_data_by_name
  <2>3. QED
    BY <2>1, <2>2, LookKeepsNodes
<1>3. ASSUME NEW row \in AddedRows, NEW i \in 0 .. MaxRows, change_data_client(i, row)
      PROVE  NodesInv'
  <2>1. InUse /\ InUse'
    BY <1>3, StillInUse, CallNames DEF change_data_client
  <2>2. CASE NodeAt[i] = NULL
    BY <1>3, <2>1, <2>2, LookKeepsNodes DEF change_data_client
  <2>3. CASE NodeAt[i] # NULL
    <3>1. PICK n \in Nat : \E rows : ListOf(n, rows)
      BY <2>1, SomeRows
    <3>2. PICK rows : ListOf(n, rows)
      BY <3>1
    <3>3. i < n
      BY <2>3, <3>2, LengthCounted DEF ListOf
    <3>4. PICK new : node' = [node EXCEPT ![NodeAt[i]] = [data |-> new, next |-> @.next]]
      BY <1>3, <2>3 DEF change_data_client
    <3>5. UNCHANGED <<head, allocated>>
      BY <1>3 DEF change_data_client
    <3>6. QED
      BY <2>1, <3>2, <3>3, <3>4, <3>5, ChangeKeepsNodes
  <2>4. QED
    BY <2>2, <2>3
<1>4. ASSUME NEW i \in 0 .. MaxRows, (i = 0 /\ DeleteHead) \/ DeleteWalking(i) \/ DeleteCounting(i)
      PROVE  NodesInv'
  <2>1. InUse
    BY <1>4 DEF DeleteHead, DeleteWalking, DeleteCounting, Answered
  <2>2. QED
    BY <1>4, <2>1, SomeRows, DeleteKeepsNodes
<1>5. ASSUME NEW i \in 0 .. MaxRows, DeleteNothing(i) \/ get_data_by_index(i)
      PROVE  NodesInv'
  <2>1. InUse /\ InUse'
    BY <1>5, StillInUse, CallNames DEF DeleteNothing, get_data_by_index
  <2>2. UNCHANGED <<head, node, allocated>>
    BY <1>5 DEF DeleteNothing, get_data_by_index
  <2>3. QED
    BY <2>1, <2>2, LookKeepsNodes
<1>6. CASE free_list
  BY <1>6, FreeKeepsNodes
<1>7. CASE UNCHANGED nodeVars
  BY <1>7, LookKeepsNodes DEF nodeVars, InUse
<1>8. 0 \in 0 .. MaxRows
  BY MaxRowsType
<1>9. QED
  BY <1>1, <1>2, <1>3, <1>4, <1>5, <1>6, <1>7, <1>8 DEF NodesNext

---------------------------------------------------------------------------

LEMMA NodesSuffice == NodesInv => NodesAccounted
<1> SUFFICES ASSUME NodesInv PROVE NodesAccounted
  OBVIOUS
<1>1. CASE ~InUse
  BY <1>1 DEF NodesAccounted, NodesInv
<1>2. CASE InUse
  <2>1. PICK n \in Nat : \E s : OnList(n, s)
    BY <1>2 DEF NodesInv
  <2>2. PICK s : OnList(n, s)
    BY <2>1
  <2>3. /\ n <= MaxRows
        /\ get_length_list = n
        /\ \A i \in 0 .. MaxRows : NodeAt[i] = IF i < n THEN s[i + 1] ELSE NULL
    BY <2>2, Walked, LengthCounted
  <2>4. Cardinality(allocated) = n
    BY <2>2, ListsCount DEF OnList
  <2>5. ASSUME NEW a
        PROVE  a \in allocated <=> \E i \in 0 .. n - 1 : NodeAt[i] = a
    <3>1. ASSUME NEW i \in 0 .. n - 1
          PROVE  NodeAt[i] = s[i + 1] /\ i + 1 \in 1 .. n
      BY <2>3, MaxRowsType
    <3>2. ASSUME NEW k \in 1 .. n
          PROVE  k - 1 \in 0 .. n - 1 /\ NodeAt[k - 1] = s[k]
      BY <2>3, MaxRowsType
    <3>3. (\A k \in 1 .. n : s[k] \in allocated) /\ \A b \in allocated : \E k \in 1 .. n : s[k] = b
      BY <2>2 DEF OnList, Lists
    <3>4. QED
      BY <3>1, <3>2, <3>3
  <2>6. QED
    BY <1>2, <2>3, <2>4, <2>5 DEF NodesAccounted
<1>3. QED
  BY <1>1, <1>2

\* The nodes allocated are those of the list, one after the other and each once,
\* whatever the order of the calls and wherever malloc finds room.
THEOREM NodesInvariant == NodesSpec => []NodesInv
<1>1. NodesInit => NodesInv
  BY InitNodes
<1>2. NodesInv /\ [NodesNext]_nodeVars => NodesInv'
  BY NodesStep
<1>3. QED
  BY <1>1, <1>2, PTL DEF NodesSpec

\* No node is lost by a deletion, linked twice, or met after it was freed, and
\* free_list leaves none.
THEOREM NodesNotLost == NodesSpec => []NodesAccounted
<1>1. NodesInv => NodesAccounted
  BY NodesSuffice
<1>2. QED
  BY <1>1, NodesInvariant, PTL

---------------------------------------------------------------------------
(* The arrays of row numbers.                                              *)

\* s gives the numbers of S from the smallest one on.
Ascends(s, S) ==
  /\ s \in Bijection(1 .. Cardinality(S), S)
  /\ \A j, k \in 1 .. Cardinality(S) : j < k => s[j] < s[k]

\* There is one way only to do so.
LEMMA AscendsOnce ==
  ASSUME NEW S, IsFiniteSet(S), S \subseteq Nat, NEW s, NEW t, Ascends(s, S), Ascends(t, S)
  PROVE  s = t
<1> DEFINE n == Cardinality(S)
           Bad == {k \in 1 .. n : s[k] # t[k]}
<1>1. n \in Nat
  BY FS_CardinalityType
<1>2. \A u : Ascends(u, S) => /\ u \in [1 .. n -> S]
                              /\ \A x \in S : \E k \in 1 .. n : u[k] = x
                              /\ \A j, k \in 1 .. n : j < k => u[j] < u[k]
  BY DEF Ascends, Bijection, Injection, Surjection
<1> HIDE DEF n
<1>3. SUFFICES ASSUME Bad # {} PROVE FALSE
  <2>1. s \in [1 .. n -> S] /\ t \in [1 .. n -> S]
    BY <1>2
  <2>2. Bad = {} => \A k \in 1 .. n : s[k] = t[k]
    OBVIOUS
  <2>3. s = [k \in 1 .. n |-> s[k]] /\ t = [k \in 1 .. n |-> t[k]]
    BY <2>1
  <2>4. QED
    BY <2>2, <2>3
<1>4. PICK k \in Bad : \A j \in Bad : k <= j
  <2>1. Bad \subseteq Nat
    BY <1>1
  <2>2. QED
    BY <1>3, <2>1, LeastNumber
<1>5. s[k] \in S /\ t[k] \in S /\ s[k] # t[k] /\ k \in 1 .. n
  BY <1>2, <1>4
<1>6. ASSUME NEW u, NEW v, Ascends(u, S), Ascends(v, S), u[k] < v[k],
             \A j \in 1 .. n : j < k => u[j] = v[j]
      PROVE  FALSE
  <2>1. PICK j \in 1 .. n : v[j] = u[k]
    BY <1>2, <1>5, <1>6
  <2>2. CASE j < k
    <3>1. u[j] = u[k] /\ u[j] < u[k]
      BY <1>2, <1>5, <1>6, <2>1, <2>2
    <3>2. u[k] \in Nat
      BY <1>2, <1>5, <1>6
    <3>3. QED
      BY <3>1, <3>2
  <2>3. CASE j = k
    <3>1. u[k] \in Nat
      BY <1>2, <1>5, <1>6
    <3>2. QED
      BY <1>6, <2>1, <2>3, <3>1
  <2>4. CASE j > k
    <3>1. v[k] < v[j] /\ v[k] \in Nat /\ v[j] \in Nat
      BY <1>2, <1>5, <1>6, <2>4
    <3>2. QED
      BY <1>6, <2>1, <3>1
  <2>5. QED
    BY <1>1, <1>5, <2>2, <2>3, <2>4
<1>7. \A j \in 1 .. n : j < k => s[j] = t[j]
  BY <1>1, <1>4
<1>8. s[k] < t[k] \/ t[k] < s[k]
  <2>1. s[k] \in Nat /\ t[k] \in Nat
    BY <1>5
  <2>2. QED
    BY <1>5, <2>1
<1>9. QED
  BY <1>6, <1>7, <1>8

LEMMA ArrayAscends ==
  ASSUME NEW S, IsFiniteSet(S), S \subseteq Nat, NEW s, Ascends(s, S)
  PROVE  Promise!Ascending(S) = s
<1> DEFINE N == Promise!Cardinality(S)
           P(u) == \A j, k \in 1 .. N : j < k => u[j] < u[k]
<1>1. Promise!Ascending(S) = CHOOSE u \in Promise!Bijection(1 .. N, S) : P(u)
  BY DEF Promise!Ascending
<1>2. N = Cardinality(S)
  BY DEF Promise!Cardinality, Cardinality
<1>3. Promise!Bijection(1 .. N, S) = Bijection(1 .. N, S)
  BY DEF Promise!Bijection, Promise!Injection, Promise!Surjection, Promise!IsInjective,
     Bijection, Injection, Surjection, IsInjective
<1>4. \A u : Ascends(u, S) <=> u \in Promise!Bijection(1 .. N, S) /\ P(u)
  BY <1>2, <1>3 DEF Ascends
<1>5. Ascends(Promise!Ascending(S), S)
  <2> HIDE DEF P, N
  <2>1. QED
    BY <1>1, <1>4, Zenon
<1>6. QED
  BY <1>5, AscendsOnce

\* A number above all others comes last.
LEMMA AscendsAppend ==
  ASSUME NEW S, IsFiniteSet(S), S \subseteq Nat, NEW s, Ascends(s, S),
         NEW x \in Nat, \A y \in S : y < x
  PROVE  Ascends(Append(s, x), S \cup {x})
<1> DEFINE n == Cardinality(S)
           t == [k \in 1 .. n + 1 |-> IF k = n + 1 THEN x ELSE s[k]]
<1>1. n \in Nat
  BY FS_CardinalityType
<1>2. /\ s \in [1 .. n -> S]
      /\ \A y \in S : \E k \in 1 .. n : s[k] = y
      /\ \A j, k \in 1 .. n : j < k => s[j] < s[k]
      /\ \A j, k \in 1 .. n : s[j] = s[k] => j = k
  BY DEF Ascends, Bijection, Injection, Surjection, IsInjective
<1>3. Cardinality(S \cup {x}) = n + 1
  BY FS_AddElement
<1> HIDE DEF n
<1>4. s \in Seq(S) /\ Len(s) = n
  BY <1>1, <1>2
<1>5. Append(s, x) = t
  <2> DEFINE T == S \cup {x}
             u == Append(s, x)
  <2>1. s \in Seq(T) /\ x \in T
    BY <1>4
  <2>2. u \in Seq(T) /\ Len(u) = n + 1 /\ u[n + 1] = x /\ \A k \in 1 .. n : u[k] = s[k]
    BY <1>4, <2>1, AppendProperties
  <2> HIDE DEF u
  <2>3. u = [k \in 1 .. n + 1 |-> u[k]]
    BY <2>2
  <2>4. \A k \in 1 .. n + 1 : u[k] = t[k]
    BY <1>1, <2>2
  <2>5. QED
    BY <2>3, <2>4 DEF u
<1>6. \A k \in 1 .. n + 1 : k = n + 1 \/ k \in 1 .. n
  BY <1>1
<1>7. t \in [1 .. n + 1 -> S \cup {x}]
  BY <1>2, <1>6
<1>8. \A j, k \in 1 .. n + 1 : j < k => t[j] < t[k]
  <2>1. ASSUME NEW j \in 1 .. n + 1, NEW k \in 1 .. n + 1, j < k
        PROVE  t[j] < t[k]
    <3>1. j \in 1 .. n /\ t[j] = s[j] /\ s[j] \in S
      BY <1>1, <1>2, <2>1
    <3>2. CASE k = n + 1
      BY <3>1, <3>2
    <3>3. CASE k \in 1 .. n
      BY <1>1, <1>2, <2>1, <3>1, <3>3
    <3>4. QED
      BY <1>6, <3>2, <3>3
  <2>2. QED
    BY <2>1
<1>9. \A j, k \in 1 .. n + 1 : t[j] = t[k] => j = k
  <2>1. ASSUME NEW j \in 1 .. n + 1, NEW k \in 1 .. n + 1, t[j] = t[k], j < k
        PROVE  FALSE
    <3>1. t[j] < t[k] /\ t[j] \in Nat /\ t[k] \in Nat
      BY <1>7, <1>8, <2>1
    <3>2. QED
      BY <2>1, <3>1
  <2>2. ASSUME NEW j \in 1 .. n + 1, NEW k \in 1 .. n + 1, t[j] = t[k], j # k
        PROVE  FALSE
    <3>1. j < k \/ k < j
      BY <1>1, <2>2
    <3>2. QED
      BY <2>1, <2>2, <3>1
  <2>3. QED
    BY <2>2
<1>10. \A y \in S \cup {x} : \E k \in 1 .. n + 1 : t[k] = y
  <2>1. ASSUME NEW y \in S
        PROVE  \E k \in 1 .. n + 1 : t[k] = y
    <3>1. PICK k \in 1 .. n : s[k] = y
      BY <1>2
    <3>2. k \in 1 .. n + 1 /\ t[k] = y
      BY <1>1, <3>1
    <3>3. QED
      BY <3>2
  <2>2. n + 1 \in 1 .. n + 1 /\ t[n + 1] = x
    BY <1>1
  <2>3. QED
    BY <2>1, <2>2
<1> HIDE DEF t
<1>11. t \in Bijection(1 .. n + 1, S \cup {x})
  BY <1>7, <1>9, <1>10 DEF Bijection, Injection, Surjection, IsInjective
<1>12. QED
  BY <1>3, <1>5, <1>8, <1>11 DEF Ascends

\* The array a loop collects, whatever its test, is the one promised.
LEMMA CollectedAscends ==
  ASSUME NEW n \in Nat, n = get_length_list, NEW matching, matching \subseteq 0 .. n - 1
  PROVE  /\ Collected(matching) = Promise!Ascending(matching)
         /\ Ascends(Collected(matching), matching)
<1> DEFINE Before(i) == {x \in matching : x < i}
           w == [i \in 0 .. n |-> CHOOSE s : Ascends(s, Before(i))]
           Step(f) == [i \in 0 .. n |->
                        IF i = 0 THEN <<>>
                        ELSE IF i - 1 \in matching THEN Append(f[i - 1], i - 1) ELSE f[i - 1]]
<1>1. \A i \in 0 .. n : IsFiniteSet(Before(i)) /\ Before(i) \subseteq Nat
  <2>1. IsFiniteSet(0 .. n - 1)
    BY FS_Interval
  <2>2. \A i : Before(i) \subseteq 0 .. n - 1
    OBVIOUS
  <2>3. QED
    BY <2>1, <2>2, FS_Subset
<1>2. Before(0) = {} /\ Before(n) = matching
  <2>1. \A x \in matching : x \in 0 .. n - 1 /\ ~(x < 0) /\ x < n
    OBVIOUS
  <2>2. QED
    BY <2>1
<1>3. \A i \in 0 .. n : i # 0 =>
        Before(i) = IF i - 1 \in matching THEN Before(i - 1) \cup {i - 1} ELSE Before(i - 1)
  <2> SUFFICES ASSUME NEW i \in 0 .. n, i # 0
               PROVE  Before(i) = IF i - 1 \in matching THEN Before(i - 1) \cup {i - 1}
                                  ELSE Before(i - 1)
    OBVIOUS
  <2>1. \A x \in matching : x < i <=> x < i - 1 \/ x = i - 1
    OBVIOUS
  <2>2. i - 1 < i
    OBVIOUS
  <2>3. QED
    BY <2>1, <2>2
<1>4. \A i \in 0 .. n : \A x \in Before(i) : x < i
  OBVIOUS
<1> HIDE DEF Before
<1>5. Ascends(<<>>, {})
  <2>1. Cardinality({}) = 0
    BY FS_EmptySet
  <2>2. <<>> \in Bijection(1 .. 0, {})
    BY DEF Bijection, Injection, Surjection, IsInjective
  <2>3. QED
    BY <2>1, <2>2 DEF Ascends
<1>6. ASSUME NEW i \in 0 .. n, i # 0, NEW s, Ascends(s, Before(i - 1))
      PROVE  Ascends(IF i - 1 \in matching THEN Append(s, i - 1) ELSE s, Before(i))
  <2>1. i - 1 \in 0 .. n /\ i - 1 \in Nat
    BY <1>6
  <2>2. CASE i - 1 \in matching
    <3>1. Ascends(Append(s, i - 1), Before(i - 1) \cup {i - 1})
      BY <1>1, <1>4, <1>6, <2>1, AscendsAppend
    <3>2. QED
      BY <1>3, <1>6, <2>2, <3>1
  <2>3. CASE i - 1 \notin matching
    BY <1>3, <1>6, <2>3
  <2>4. QED
    BY <2>2, <2>3
<1>7. \A i \in 0 .. n : \E s : Ascends(s, Before(i))
  <2> DEFINE Bad == {i \in 0 .. n : ~ \E s : Ascends(s, Before(i))}
  <2>1. SUFFICES ASSUME Bad # {} PROVE FALSE
    OBVIOUS
  <2>2. PICK i \in Bad : \A j \in Bad : i <= j
    <3>1. Bad \subseteq Nat
      OBVIOUS
    <3>2. QED
      BY <2>1, <3>1, LeastNumber
  <2>3. i # 0
    BY <1>2, <1>5, <2>2
  <2>4. i - 1 \in 0 .. n /\ i - 1 \notin Bad
    BY <2>2, <2>3
  <2>5. PICK s : Ascends(s, Before(i - 1))
    BY <2>4
  <2>6. QED
    BY <1>6, <2>2, <2>3, <2>5
<1>8. \A i \in 0 .. n : Ascends(w[i], Before(i))
  <2>1. ASSUME NEW i \in 0 .. n
        PROVE  Ascends(w[i], Before(i))
    <3>1. w[i] = CHOOSE s : Ascends(s, Before(i))
      OBVIOUS
    <3>2. \E s : Ascends(s, Before(i))
      BY <1>7
    <3> HIDE DEF w
    <3>3. QED
      BY <3>1, <3>2, Zenon
  <2>2. QED
    BY <2>1
<1>9. \A i \in 0 .. n : w[i] = Step(w)[i]
  <2> SUFFICES ASSUME NEW i \in 0 .. n
               PROVE  w[i] = Step(w)[i]
    OBVIOUS
  <2>1. IsFiniteSet(Before(i)) /\ Before(i) \subseteq Nat /\ Ascends(w[i], Before(i))
    BY <1>1, <1>8
  <2>2. CASE i = 0
    <3>1. Ascends(<<>>, Before(i)) /\ Step(w)[i] = <<>>
      BY <1>2, <1>5, <2>2
    <3>2. QED
      BY <2>1, <3>1, AscendsOnce
  <2>3. CASE i # 0
    <3>1. i - 1 \in 0 .. n
      BY <2>3
    <3>2. Ascends(w[i - 1], Before(i - 1))
      BY <1>8, <3>1
    <3> HIDE DEF w
    <3>3. Step(w)[i] = IF i - 1 \in matching THEN Append(w[i - 1], i - 1) ELSE w[i - 1]
      BY <2>3
    <3>4. Ascends(Step(w)[i], Before(i))
      BY <1>6, <2>3, <3>2, <3>3
    <3>5. QED
      BY <2>1, <3>4, AscendsOnce
  <2>4. QED
    BY <2>2, <2>3
<1>10. w = Step(w)
  <2>1. w = [i \in 0 .. n |-> w[i]] /\ Step(w) = [i \in 0 .. n |-> Step(w)[i]]
    OBVIOUS
  <2> HIDE DEF w, Step
  <2>2. QED
    BY <1>9, <2>1
<1>11. ASSUME NEW f, f = Step(f)
       PROVE  f = w
  <2> DEFINE Bad == {i \in 0 .. n : f[i] # w[i]}
  <2>1. Bad = {}
    <3>1. SUFFICES ASSUME Bad # {} PROVE FALSE
      OBVIOUS
    <3>2. PICK i \in Bad : \A j \in Bad : i <= j
      <4>1. Bad \subseteq Nat
        OBVIOUS
      <4>2. QED
        BY <3>1, <4>1, LeastNumber
    <3>3. f[i] = Step(f)[i] /\ w[i] = Step(w)[i]
      BY <1>10, <1>11
    <3> HIDE DEF w
    <3>4. CASE i = 0
      BY <3>2, <3>3, <3>4
    <3>5. CASE i # 0
      <4>1. i - 1 \in 0 .. n /\ i - 1 \notin Bad
        BY <3>2, <3>5
      <4>2. f[i - 1] = w[i - 1]
        BY <4>1
      <4>3. Step(f)[i] = Step(w)[i]
        BY <4>2
      <4>4. QED
        BY <3>2, <3>3, <4>3
    <3>6. QED
      BY <3>4, <3>5
  <2>2. f = [i \in 0 .. n |-> f[i]]
    BY <1>11
  <2>3. w = [i \in 0 .. n |-> w[i]]
    OBVIOUS
  <2> HIDE DEF w, Step
  <2>4. QED
    BY <2>1, <2>2, <2>3
<1>12. Collected(matching) = (CHOOSE f : f = Step(f))[n]
  BY DEF Collected
<1>13. (CHOOSE f : f = Step(f)) = w
  <2> HIDE DEF w, Step
  <2>1. QED
    BY <1>10, <1>11, Zenon
<1>14. Ascends(w[n], matching) /\ IsFiniteSet(matching) /\ matching \subseteq Nat
  BY <1>1, <1>2, <1>8
<1>15. QED
  BY <1>12, <1>13, <1>14, ArrayAscends

\* The first number of the array is the least one.
LEMMA AscendsFirst ==
  ASSUME NEW S, IsFiniteSet(S), S \subseteq Nat, NEW s, Ascends(s, S)
  PROVE  /\ s = <<>> <=> S = {}
         /\ S # {} => Head(s) = Promise!Min(S) /\ Head(s) \in S
<1>1. Cardinality(S) \in Nat /\ (Cardinality(S) = 0 <=> S = {})
  BY FS_CardinalityType, FS_EmptySet
<1>2. /\ s \in [1 .. Cardinality(S) -> S]
      /\ \A x \in S : \E k \in 1 .. Cardinality(S) : s[k] = x
      /\ \A j, k \in 1 .. Cardinality(S) : j < k => s[j] < s[k]
  BY DEF Ascends, Bijection, Injection, Surjection
<1>3. s = <<>> <=> S = {}
  BY <1>1, <1>2
<1>4. ASSUME S # {}
      PROVE  Head(s) = Promise!Min(S) /\ Head(s) \in S
  <2>1. 1 \in 1 .. Cardinality(S) /\ s[1] \in S
    <3> DEFINE n == Cardinality(S)
    <3>1. n \in Nat /\ n # 0 /\ s \in [1 .. n -> S]
      BY <1>1, <1>2, <1>4
    <3> HIDE DEF n
    <3>2. 1 \in 1 .. n /\ s[1] \in S
      BY <3>1
    <3>3. QED
      BY <3>2 DEF n
  <2>2. Head(s) = s[1]
    BY <1>1, <1>2, <1>4
  <2>3. \A x \in S : s[1] <= x
    <3>1. ASSUME NEW x \in S
          PROVE  s[1] <= x
      <4>1. PICK k \in 1 .. Cardinality(S) : s[k] = x
        BY <1>2
      <4>2. k = 1 \/ 1 < k
        BY <1>1
      <4>3. s[1] \in Nat /\ x \in Nat
        BY <2>1
      <4>4. QED
        BY <1>2, <2>1, <4>1, <4>2, <4>3
    <3>2. QED
      BY <3>1
  <2>4. Promise!Min(S) = CHOOSE x \in S : \A y \in S : x <= y
    BY DEF Promise!Min
  <2>5. \A x \in S : (\A y \in S : x <= y) => x = s[1]
    <3>1. ASSUME NEW x \in S, \A y \in S : x <= y
          PROVE  x = s[1]
      <4>1. x <= s[1] /\ s[1] <= x /\ x \in Nat /\ s[1] \in Nat
        BY <2>1, <2>3, <3>1
      <4>2. QED
        BY <4>1
    <3>2. QED
      BY <3>1
  <2>6. QED
    BY <2>1, <2>2, <2>3, <2>4, <2>5, Zenon
<1>5. QED
  BY <1>3, <1>4

---------------------------------------------------------------------------
(* The nodes implement the list.                                           *)

\* The rows the nodes stand for.
Content == IF InUse THEN Chain ELSE <<>>

LEMMA ChainOf ==
  \A n \in Nat : \A rows : NodesInv /\ ListOf(n, rows) =>
    /\ n <= MaxRows
    /\ get_length_list = n
    /\ Chain = rows
    /\ \A i \in 0 .. MaxRows : /\ NodeAt[i] # NULL <=> i < n
                               /\ i < n => DataAt(i) = rows[i + 1]
<1> SUFFICES ASSUME NEW n \in Nat, NEW rows, NodesInv, ListOf(n, rows)
             PROVE  /\ n <= MaxRows
                    /\ get_length_list = n
                    /\ Chain = rows
                    /\ \A i \in 0 .. MaxRows : /\ NodeAt[i] # NULL <=> i < n
                                               /\ i < n => DataAt(i) = rows[i + 1]
  OBVIOUS
<1>1. PICK s : OnList(n, s) /\ rows = RowsAt(n, s)
  BY DEF ListOf
<1>2. /\ n <= MaxRows
      /\ get_length_list = n
      /\ \A i \in 0 .. MaxRows : NodeAt[i] = IF i < n THEN s[i + 1] ELSE NULL
      /\ \A i \in 0 .. MaxRows : NodeAt[i] # NULL <=> i < n
  BY <1>1, Walked, LengthCounted
<1>3. \A i \in 0 .. MaxRows : i < n => DataAt(i) = rows[i + 1]
  <2>1. ASSUME NEW i \in 0 .. MaxRows, i < n
        PROVE  DataAt(i) = rows[i + 1]
    <3>1. i + 1 \in 1 .. n /\ NodeAt[i] = s[i + 1]
      BY <1>2, <2>1, MaxRowsType
    <3>2. QED
      BY <1>1, <3>1 DEF DataAt, RowsAt
  <2>2. QED
    BY <2>1
<1>4. \A k \in 1 .. n : DataAt(k - 1) = rows[k]
  <2>1. ASSUME NEW k \in 1 .. n
        PROVE  DataAt(k - 1) = rows[k]
    <3>1. k - 1 \in 0 .. MaxRows /\ k - 1 < n /\ k - 1 + 1 = k
      BY <1>2, MaxRowsType
    <3>2. QED
      BY <1>3, <3>1
  <2>2. QED
    BY <2>1
<1>5. Chain = rows
  <2>1. rows = [k \in 1 .. n |-> rows[k]]
    BY <1>1 DEF RowsAt
  <2>2. QED
    BY <1>2, <1>4, <2>1 DEF Chain
<1>6. QED
  BY <1>2, <1>3, <1>5

\* The rows before a call, and after one that leaves the list in use.
LEMMA ContentOf ==
  \A n \in Nat : \A rows : NodesInv /\ InUse /\ ListOf(n, rows) =>
    Content = rows /\ Chain = rows
BY ChainOf DEF Content

LEMMA ContentAfter ==
  \A n \in Nat : \A rows : NodesInv' /\ InUse' /\ ListOf(n, rows)' => Content' = rows
<1>1. (\A n \in Nat : \A rows : NodesInv /\ InUse /\ ListOf(n, rows) => Content = rows)'
  <2>1. \A n \in Nat : \A rows : NodesInv /\ InUse /\ ListOf(n, rows) => Content = rows
    BY ContentOf
  <2>2. QED
    BY <2>1, PTL
<1>2. QED
  BY <1>1

LEMMA InitRefines == NodesInit => Promise!ListInit
<1> SUFFICES ASSUME NodesInit PROVE Promise!ListInit
  OBVIOUS
<1>1. OnList(0, <<>>) /\ <<>> = RowsAt(0, <<>>)
  BY DEF NodesInit, OnList, Lists, RowsAt
<1>2. NodesInv /\ InUse
  BY InitNodes DEF NodesInit, InUse
<1>3. Content = <<>>
  BY <1>1, <1>2, ContentOf DEF ListOf
<1>4. QED
  BY <1>3 DEF Promise!ListInit, NodesInit, Content

\* What a call does is promised.
LEMMA AddRefines ==
  ASSUME NodesInv, NEW row, add_client(row)
  PROVE  Promise!Add(row) /\ UNCHANGED version
<1>1. /\ InUse /\ InUse'
      /\ Promise!Answer(<<"add", row>>, Promise!CMS_SUCCESS) /\ UNCHANGED version
  BY StillInUse, CallNames DEF add_client, Answered
<1>2. PICK n \in Nat : \E rows : ListOf(n, rows)
  BY <1>1, SomeRows
<1>3. PICK rows : ListOf(n, rows)
  BY <1>2
<1> DEFINE new == [k \in 1 .. n + 1 |-> IF k = n + 1 THEN row ELSE rows[k]]
<1>4. Content = rows /\ Content' = new
  <2>1. NodesInv' /\ ListOf(n + 1, new)'
    BY <1>3, AddKeepsNodes
  <2> HIDE DEF new
  <2>2. QED
    BY <1>1, <1>3, <2>1, ContentOf, ContentAfter
<1>5. Append(rows, row) = new
  <2> DEFINE T == {rows[k] : k \in 1 .. n} \cup {row}
             u == Append(rows, row)
  <2>1. rows \in Seq(T) /\ Len(rows) = n /\ row \in T
    BY <1>3 DEF ListOf, RowsAt
  <2>2. u \in Seq(T) /\ Len(u) = n + 1 /\ u[n + 1] = row /\ \A k \in 1 .. n : u[k] = rows[k]
    BY <2>1, AppendProperties
  <2> HIDE DEF u, T
  <2>3. u = [k \in 1 .. n + 1 |-> u[k]]
    BY <2>2
  <2>4. \A k \in 1 .. n + 1 : u[k] = new[k]
    BY <2>2
  <2>5. QED
    BY <2>3, <2>4 DEF u
<1>6. QED
  BY <1>1, <1>4, <1>5 DEF Promise!Add, Content

LEMMA RemoveAtIsWithout ==
  ASSUME NEW n \in Nat, NEW s, NEW rows, rows = RowsAt(n, s), NEW i \in 0 .. n - 1
  PROVE  Len(rows) = n /\ Promise!RemoveAt(rows, i + 1) = Without(n, rows, i)
<1> DEFINE T == {rows[k] : k \in 1 .. n}
           a == SubSeq(rows, 1, i)
           b == SubSeq(rows, i + 2, n)
<1>1. rows \in Seq(T) /\ Len(rows) = n
  BY DEF RowsAt
<1>2. Promise!RemoveAt(rows, i + 1) = a \o b
  BY <1>1 DEF Promise!RemoveAt
<1>3. a \in Seq(T) /\ Len(a) = i /\ \A k \in 1 .. i : a[k] = rows[k]
  BY <1>1, SubSeqProperties
<1>4. b \in Seq(T) /\ Len(b) = n - 1 - i /\ \A k \in 1 .. n - 1 - i : b[k] = rows[i + 1 + k]
  BY <1>1, SubSeqProperties
<1> HIDE DEF a, b, T
<1> DEFINE c == a \o b
<1>5. /\ c \in Seq(T) /\ Len(c) = n - 1
      /\ \A k \in 1 .. n - 1 : c[k] = IF k <= i THEN a[k] ELSE b[k - i]
  <2>1. /\ c \in Seq(T) /\ Len(c) = Len(a) + Len(b)
        /\ \A k \in 1 .. Len(a) + Len(b) : c[k] = IF k <= Len(a) THEN a[k] ELSE b[k - Len(a)]
    BY <1>3, <1>4, ConcatProperties
  <2>2. Len(a) + Len(b) = n - 1
    BY <1>3, <1>4
  <2> HIDE DEF c
  <2>3. QED
    BY <1>3, <2>1, <2>2
<1> HIDE DEF c
<1>6. \A k \in 1 .. n - 1 : c[k] = IF k <= i THEN rows[k] ELSE rows[k + 1]
  BY <1>3, <1>4, <1>5
<1>7. c = [k \in 1 .. n - 1 |-> c[k]]
  BY <1>5
<1>8. c = Without(n, rows, i)
  BY <1>6, <1>7 DEF Without
<1>9. QED
  BY <1>1, <1>2, <1>8 DEF c

LEMMA DeleteRefines ==
  ASSUME NodesInv, NEW i \in 0 .. MaxRows,
         \/ i = 0 /\ DeleteHead
         \/ DeleteWalking(i) \/ DeleteCounting(i) \/ DeleteNothing(i)
  PROVE  Promise!Delete(i) /\ UNCHANGED version
<1>1. InUse /\ InUse' /\ UNCHANGED version
  BY StillInUse, CallNames DEF DeleteHead, DeleteWalking, DeleteCounting, DeleteNothing, Answered
<1>2. PICK n \in Nat : \E rows : ListOf(n, rows)
  BY <1>1, SomeRows
<1>3. PICK rows : ListOf(n, rows)
  BY <1>2
<1>4. Content = rows
  BY <1>1, <1>3, ContentOf
<1>5. PICK s : OnList(n, s) /\ rows = RowsAt(n, s)
  BY <1>3 DEF ListOf
<1>6. CASE (i = 0 /\ DeleteHead) \/ DeleteWalking(i) \/ DeleteCounting(i)
  <2>1. i < n /\ NodesInv' /\ ListOf(n - 1, Without(n, rows, i))'
    BY <1>3, <1>6, DeleteKeepsNodes
  <2>2. n - 1 \in Nat /\ i \in 0 .. n - 1
    BY <2>1, MaxRowsType
  <2>3. Content' = Without(n, rows, i)
    BY <1>1, <2>1, <2>2, ContentAfter
  <2>4. Len(rows) = n /\ Promise!RemoveAt(rows, i + 1) = Without(n, rows, i)
    BY <1>5, <2>2, RemoveAtIsWithout
  <2>5. Promise!Answer(<<"delete", i>>, Promise!CMS_SUCCESS)
    BY <1>6 DEF DeleteHead, DeleteWalking, DeleteCounting, Answered
  <2>6. QED
    BY <1>1, <1>4, <2>1, <2>3, <2>4, <2>5 DEF Promise!Delete, Content
<1>7. CASE DeleteNothing(i)
  <2>1. n <= i
    <3>1. ASSUME n # 0
          PROVE  head # NULL
      <4>1. 1 \in 1 .. n /\ head = s[1]
        BY <1>5, <3>1 DEF OnList
      <4>2. s[1] \in allocated
        BY <1>5, <4>1 DEF OnList, Lists
      <4>3. QED
        BY <4>1, <4>2, NodesAssumption DEF NodesInv
    <3>2. get_length_list = n /\ (NodeAt[i] # NULL <=> i < n)
      BY <1>3, ChainOf
    <3>3. QED
      BY <1>7, <3>1, <3>2, MaxRowsType DEF DeleteNothing
  <2>2. Len(rows) = n
    BY <1>5 DEF RowsAt
  <2>3. Content' = rows
    <3>1. UNCHANGED <<head, node, allocated>>
      BY <1>7 DEF DeleteNothing
    <3>2. NodesInv' /\ ListOf(n, rows)'
      BY <1>1, <1>3, <3>1, LookKeepsNodes
    <3>3. QED
      BY <1>1, <3>2, ContentAfter
  <2>4. Promise!Answer(<<"delete", i>>, Promise!CMS_ERROR)
    BY <1>7 DEF DeleteNothing, Answered
  <2>5. QED
    BY <1>1, <1>4, <2>1, <2>2, <2>3, <2>4, MaxRowsType DEF Promise!Delete, Content
<1>8. QED
  BY <1>6, <1>7

LEMMA ChangeRefines ==
  ASSUME NodesInv, NEW i \in 0 .. MaxRows, NEW row, change_data_client(i, row)
  PROVE  Promise!Change(i, row) /\ UNCHANGED version
<1>1. InUse /\ InUse' /\ UNCHANGED version
  BY StillInUse, CallNames DEF change_data_client, Answered
<1>2. PICK n \in Nat : \E rows : ListOf(n, rows)
  BY <1>1, SomeRows
<1>3. PICK rows : ListOf(n, rows)
  BY <1>2
<1>4. Content = rows
  BY <1>1, <1>3, ContentOf
<1>5. /\ NodeAt[i] # NULL <=> i < n
      /\ i < n => DataAt(i) = rows[i + 1]
  BY <1>3, ChainOf
<1>6. rows = [k \in 1 .. n |-> rows[k]] /\ Len(rows) = n
  BY <1>3 DEF ListOf, RowsAt
<1>7. CASE NodeAt[i] # NULL
  <2> DEFINE new == Promise!Copied(DataAt(i), row)
  <2>1. /\ node' = [node EXCEPT ![NodeAt[i]] = [data |-> new, next |-> @.next]]
        /\ UNCHANGED <<head, allocated>>
        /\ Promise!Answer(<<"change", i, row>>, Promise!CMS_SUCCESS)
    BY <1>7 DEF change_data_client, Answered
  <2>2. PICK m : m = new
    OBVIOUS
  <2>3. node' = [node EXCEPT ![NodeAt[i]] = [data |-> m, next |-> @.next]]
    BY <2>1, <2>2
  <2>4. NodesInv' /\ ListOf(n, [rows EXCEPT ![i + 1] = m])'
    <3> HIDE DEF new
    <3>1. QED
      BY <1>1, <1>3, <1>5, <1>7, <2>1, <2>3, ChangeKeepsNodes
  <2>5. Content' = [rows EXCEPT ![i + 1] = m]
    BY <1>1, <2>4, ContentAfter
  <2>6. m = Promise!Copied(rows[i + 1], row)
    BY <1>5, <1>7, <2>2
  <2>7. QED
    BY <1>1, <1>4, <1>5, <1>6, <1>7, <2>1, <2>5, <2>6 DEF Promise!Change, Content
<1>8. CASE NodeAt[i] = NULL
  <2>1. /\ UNCHANGED <<head, node, allocated>>
        /\ Promise!Answer(<<"change", i, row>>, Promise!CMS_ERROR)
    BY <1>8 DEF change_data_client, Answered
  <2>2. Content' = rows
    <3>1. NodesInv' /\ ListOf(n, rows)'
      BY <1>1, <1>3, <2>1, LookKeepsNodes
    <3>2. QED
      BY <1>1, <3>1, ContentAfter
  <2>3. i >= n
    BY <1>5, <1>8, MaxRowsType
  <2>4. QED
    BY <1>1, <1>4, <1>6, <2>1, <2>2, <2>3 DEF Promise!Change, Content
<1>9. QED
  BY <1>7, <1>8

\* What the searches see is what the list has.
LEMMA SearchesAgree ==
  ASSUME NodesInv, InUse, InUse', UNCHANGED <<head, node, allocated>>
  PROVE  /\ Content' = Content
         /\ Len(Content) = get_length_list /\ get_length_list \in Nat
         /\ \A i \in 0 .. get_length_list - 1 : DataAt(i) = Content[i + 1]
         /\ \A i \in 0 .. MaxRows : /\ NodeAt[i] # NULL <=> i < Len(Content)
                                    /\ NodeAt[i] # NULL => DataAt(i) = Content[i + 1]
<1>1. PICK n \in Nat : \E rows : ListOf(n, rows)
  BY SomeRows
<1>2. PICK rows : ListOf(n, rows)
  BY <1>1
<1>3. Content = rows
  BY <1>2, ContentOf
<1>4. NodesInv' /\ ListOf(n, rows)'
  BY <1>2, LookKeepsNodes
<1>5. Content' = rows
  BY <1>4, ContentAfter
<1>6. Len(rows) = n
  BY <1>2 DEF ListOf, RowsAt
<1>7. /\ n <= MaxRows /\ get_length_list = n
      /\ \A i \in 0 .. MaxRows : /\ NodeAt[i] # NULL <=> i < n
                                 /\ i < n => DataAt(i) = rows[i + 1]
  BY <1>2, ChainOf
<1>8. \A i \in 0 .. n - 1 : i \in 0 .. MaxRows /\ i < n
  BY <1>7, MaxRowsType
<1>9. QED
  BY <1>3, <1>5, <1>6, <1>7, <1>8

LEMMA SearchesRefine ==
  ASSUME NodesInv, NEW k
  PROVE  /\ get_index_by_topic(k) => Promise!FindTopic(k) /\ UNCHANGED version
         /\ get_index_by_name(k) => Promise!FindName(k) /\ UNCHANGED version
         /\ get_data_by_name(k) => Promise!FindData(k) /\ UNCHANGED version
<1> SUFFICES ASSUME \/ get_index_by_topic(k)
                    \/ get_index_by_name(k)
                    \/ get_data_by_name(k)
             PROVE  /\ get_index_by_topic(k) => Promise!FindTopic(k) /\ UNCHANGED version
                    /\ get_index_by_name(k) => Promise!FindName(k) /\ UNCHANGED version
                    /\ get_data_by_name(k) => Promise!FindData(k) /\ UNCHANGED version
  OBVIOUS
<1>1. InUse /\ InUse' /\ UNCHANGED version /\ UNCHANGED <<head, node, allocated>>
  BY StillInUse, CallNames DEF get_index_by_topic, get_index_by_name, get_data_by_name, Answered
<1> DEFINE n == get_length_list
<1>2. /\ Content' = Content
      /\ Len(Content) = n /\ n \in Nat
      /\ \A i \in 0 .. n - 1 : DataAt(i) = Content[i + 1]
  BY <1>1, SearchesAgree
<1>3. NodesNamed(k) = Promise!Named(k)
  BY <1>2 DEF NodesNamed, Promise!Named, Content
<1>4. NodesOfTopic(k) =
        {i \in 0 .. Len(Content) - 1 : /\ Promise!Same(Content[i + 1].topic, k)
                                       /\ Promise!Receives(Content[i + 1])}
  BY <1>2 DEF NodesOfTopic
<1>5. NodesNamed(k) \subseteq 0 .. n - 1 /\ NodesOfTopic(k) \subseteq 0 .. n - 1
  BY DEF NodesNamed, NodesOfTopic
<1> DEFINE found == Collected(NodesNamed(k))
<1>6. /\ found = Promise!Ascending(Promise!Named(k))
      /\ found = <<>> <=> Promise!Named(k) = {}
      /\ Promise!Named(k) # {} =>
           Head(found) = Promise!Min(Promise!Named(k)) /\ Head(found) \in NodesNamed(k)
  <2>1. found = Promise!Ascending(NodesNamed(k))
    BY <1>2, <1>5, CollectedAscends
  <2>2. IsFiniteSet(NodesNamed(k)) /\ NodesNamed(k) \subseteq Nat
    <3>1. IsFiniteSet(0 .. n - 1) /\ 0 .. n - 1 \subseteq Nat
      BY <1>2, FS_Interval
    <3> HIDE DEF n
    <3>2. QED
      BY <1>5, <3>1, FS_Subset
  <2>3. Ascends(found, NodesNamed(k))
    BY <1>2, <1>5, CollectedAscends
  <2>4. QED
    BY <1>3, <2>1, <2>2, <2>3, AscendsFirst
<1>7. ASSUME get_index_by_topic(k)
      PROVE  Promise!FindTopic(k)
  <2>1. Collected(NodesOfTopic(k)) = Promise!Ascending(NodesOfTopic(k))
    BY <1>2, <1>5, CollectedAscends
  <2>2. Promise!Answer(<<"topic", k>>, Promise!Array(Collected(NodesOfTopic(k))))
    BY <1>7 DEF get_index_by_topic, Answered
  <2>3. QED
    BY <1>2, <1>4, <2>1, <2>2 DEF Promise!FindTopic, Content
<1>8. ASSUME get_index_by_name(k)
      PROVE  Promise!FindName(k)
  <2>1. Promise!Answer(<<"name", k>>,
                       IF version = "demo_1" THEN Promise!Array(found)
                       ELSE IF found = <<>> THEN Promise!CMS_ERROR
                       ELSE Promise!Number(Head(found)))
    BY <1>8 DEF get_index_by_name, Answered
  <2> HIDE DEF found
  <2>2. Promise!Answer(<<"name", k>>,
                       IF version = "demo_1" THEN Promise!Array(Promise!Ascending(Promise!Named(k)))
                       ELSE IF Promise!Named(k) = {} THEN Promise!CMS_ERROR
                       ELSE Promise!Number(Promise!Min(Promise!Named(k))))
    BY <1>6, <2>1
  <2>3. QED
    BY <1>2, <2>2 DEF Promise!FindName, Content
<1>9. ASSUME get_data_by_name(k)
      PROVE  Promise!FindData(k)
  <2>1. Promise!Answer(<<"data", k>>,
                       Promise!Pointer(IF found = <<>> THEN <<>> ELSE <<DataAt(Head(found))>>))
    BY <1>9 DEF get_data_by_name, Answered
  <2> HIDE DEF found
  <2>2. Promise!Named(k) # {} =>
          /\ Promise!Min(Promise!Named(k)) \in 0 .. n - 1
          /\ DataAt(Head(found)) = Content[Promise!Min(Promise!Named(k)) + 1]
    BY <1>2, <1>3, <1>5, <1>6
  <2>3. Promise!Answer(<<"data", k>>,
                       Promise!Pointer(IF Promise!Named(k) = {} THEN <<>>
                                       ELSE <<Content[Promise!Min(Promise!Named(k)) + 1]>>))
    BY <1>6, <2>1, <2>2
  <2>4. QED
    BY <1>2, <2>3 DEF Promise!FindData, Content
<1>10. QED
  BY <1>1, <1>7, <1>8, <1>9

LEMMA FetchRefines ==
  ASSUME NodesInv, NEW i \in 0 .. MaxRows, get_data_by_index(i)
  PROVE  Promise!Fetch(i) /\ UNCHANGED version
<1>1. /\ InUse /\ InUse' /\ UNCHANGED version /\ UNCHANGED <<head, node, allocated>>
      /\ Promise!Answer(<<"fetch", i>>,
                        Promise!Pointer(IF NodeAt[i] = NULL THEN <<>> ELSE <<DataAt(i)>>))
  BY StillInUse, CallNames DEF get_data_by_index, Answered
<1>2. /\ Content' = Content
      /\ NodeAt[i] # NULL <=> i < Len(Content)
      /\ NodeAt[i] # NULL => DataAt(i) = Content[i + 1]
  BY <1>1, SearchesAgree
<1>3. Promise!Answer(<<"fetch", i>>,
                     Promise!Pointer(IF i < Len(Content) THEN <<Content[i + 1]>> ELSE <<>>))
  BY <1>1, <1>2
<1>4. QED
  BY <1>1, <1>2, <1>3 DEF Promise!Fetch, Content

LEMMA FreeRefines ==
  ASSUME free_list
  PROVE  Promise!FreeAll /\ UNCHANGED version
BY DEF free_list, Answered, Promise!Answer, InUse, Promise!FreeAll, Promise!CMS_SUCCESS

LEMMA CallsRefine ==
  NodesInv /\ [NodesNext]_nodeVars =>
    (Promise!ListCall /\ UNCHANGED version) \/ UNCHANGED <<version, Content, asked, result>>
<1> SUFFICES ASSUME NodesInv, [NodesNext]_nodeVars
             PROVE  \/ Promise!ListCall /\ UNCHANGED version
                    \/ UNCHANGED <<version, Content, asked, result>>
  OBVIOUS
<1>1. ASSUME NEW row \in AddedRows,
             \/ add_client(row)
             \/ get_index_by_topic(row.topic)
             \/ get_index_by_name(row.client_name) \/ get_data_by_name(row.client_name)
      PROVE  Promise!ListCall /\ UNCHANGED version
  BY <1>1, AddRefines, SearchesRefine DEF Promise!ListCall
<1>2. ASSUME NEW row \in AddedRows, NEW i \in 0 .. MaxRows, change_data_client(i, row)
      PROVE  Promise!ListCall /\ UNCHANGED version
  BY <1>2, ChangeRefines DEF Promise!ListCall
<1>3. ASSUME NEW i \in 0 .. MaxRows,
             \/ i = 0 /\ DeleteHead
             \/ DeleteWalking(i) \/ DeleteCounting(i) \/ DeleteNothing(i)
      PROVE  Promise!ListCall /\ UNCHANGED version
  BY <1>3, DeleteRefines DEF Promise!ListCall
<1>4. ASSUME NEW i \in 0 .. MaxRows, get_data_by_index(i)
      PROVE  Promise!ListCall /\ UNCHANGED version
  BY <1>4, FetchRefines DEF Promise!ListCall
<1>5. CASE free_list
  BY <1>5, FreeRefines DEF Promise!ListCall
<1>6. CASE UNCHANGED nodeVars
  BY <1>6 DEF nodeVars, Content, InUse, Chain, DataAt, get_length_list, NodeAt
<1>7. 0 \in 0 .. MaxRows
  BY MaxRowsType
<1>8. QED
  BY <1>1, <1>2, <1>3, <1>4, <1>5, <1>6, <1>7 DEF NodesNext

\* The nodes in memory, in both versions of the list, do what a list of rows
\* promises, call by call and answer by answer, as long as malloc finds room.
THEOREM ListRefinement == NodesSpec => ListImplemented
<1>1. NodesInit => Promise!ListInit
  BY InitRefines
<1>2. NodesInv /\ [NodesNext]_nodeVars =>
        [Promise!ListCall /\ UNCHANGED version]_<<version, Content, asked, result>>
  BY CallsRefine
<1>3. QED
  BY <1>1, <1>2, NodesInvariant, PTL DEF NodesSpec, ListImplemented, Promise!ListSpec, Content
=============================================================================
