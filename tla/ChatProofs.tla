------------------------------ MODULE ChatProofs -------------------------------
(***************************************************************************)
(* The safety theorems about the connection manager.                       *)
(***************************************************************************)
EXTENDS ChatOps, FiniteSetTheorems, WellFoundedInduction, TLAPS

-----------------------------------------------------------------------------
(***************************************************************************)
(* What Without returns, by the least index at which it could fail.        *)
(***************************************************************************)
LEMMA LeastNat ==
  ASSUME NEW T \in SUBSET Nat, T # {}
  PROVE  \E n \in T : \A m \in T : n <= m
<1>1. PICK n \in T : \A m \in T : <<m, n>> \notin OpToRel(<, Nat)
  BY NatLessThanWellFounded, WFMin, Zenon
<1>2. \A m \in T : ~(m < n)
  BY <1>1, Zenon DEF OpToRel
<1> QED
  BY <1>2

KeptAt(f, list, S, i) ==
  IF i = 0             THEN << >>
  ELSE IF list[i] \in S THEN f[i - 1]
  ELSE Append(f[i - 1], list[i])

Kept(list, S) == CHOOSE f : f = [i \in 0..Len(list) |-> KeptAt(f, list, S, i)]

LEMMA WithoutIsKept ==
  ASSUME NEW list, NEW S
  PROVE  Without(list, S) = Kept(list, S)[Len(list)]
BY DEF Without, Kept, KeptAt

LEMMA KeptExists ==
  ASSUME NEW C, NEW list \in Seq(C), NEW S
  PROVE  /\ DOMAIN Kept(list, S) = 0..Len(list)
         /\ \A i \in 0..Len(list) : Kept(list, S)[i] = KeptAt(Kept(list, S), list, S, i)
<1> DEFINE Fits(f, n) == f = [i \in 0..n |-> KeptAt(f, list, S, i)]
           T == {n \in Nat : ~\E f : Fits(f, n)}
<1>1. T = {}
  <2> SUFFICES ASSUME T # {} PROVE FALSE
    OBVIOUS
  <2>1. PICK n \in T : \A m \in T : n <= m
    BY LeastNat
  <2>2. n # 0
    <3>1. Fits([i \in 0..0 |-> << >>], 0)
      BY DEF KeptAt
    <3> QED
      BY <3>1
  <2>3. n - 1 \in Nat /\ n - 1 \notin T
    BY <2>1, <2>2
  <2>4. PICK f : Fits(f, n - 1)
    BY <2>3
  <2> DEFINE g == [i \in 0..n |-> IF i = n THEN KeptAt(f, list, S, n) ELSE f[i]]
  <2>5. ASSUME NEW i \in 0..n PROVE g[i] = KeptAt(g, list, S, i)
    <3>1. CASE i = 0
      BY <3>1, <2>2, <2>4 DEF KeptAt
    <3>2. CASE i # 0
      <4>1. i - 1 \in 0..(n - 1) /\ g[i - 1] = f[i - 1]
        BY <3>2, <2>2
      <4>2. g[i] = KeptAt(f, list, S, i)
        BY <2>2, <2>4
      <4> QED
        BY <3>2, <4>1, <4>2 DEF KeptAt
    <3> QED
      BY <3>1, <3>2
  <2>6. Fits(g, n)
    BY <2>5
  <2> QED
    BY <2>6
<1>2. Len(list) \in Nat
  OBVIOUS
<1>3. \E f : Fits(f, Len(list))
  BY <1>1, <1>2
<1>4. Fits(Kept(list, S), Len(list))
  BY <1>3 DEF Kept
<1> QED
  BY <1>4

Distinct(list) == \A i, j \in DOMAIN list : list[i] = list[j] => i = j

\* k is what Without keeps of the first n elements of list: those outside S, in
\* their order.
KeptOf(k, C, list, S, n) ==
  /\ k \in Seq(C) /\ Distinct(k)
  /\ \A j \in DOMAIN k : \E i \in 1..n : i >= j /\ list[i] \notin S /\ k[j] = list[i]
  /\ \A i \in 1..n : list[i] \notin S => \E j \in DOMAIN k : k[j] = list[i]

LEMMA KeptAppends ==
  ASSUME NEW C, NEW list \in Seq(C), Distinct(list), NEW S, NEW n \in 1..Len(list),
         list[n] \notin S, NEW k, KeptOf(k, C, list, S, n - 1)
  PROVE  KeptOf(Append(k, list[n]), C, list, S, n)
<1> DEFINE a == Append(k, list[n])
<1>1. PICK m \in Nat : m = Len(k)
  BY DEF KeptOf
<1>2. k \in Seq(C) /\ list[n] \in C /\ DOMAIN k = 1..m /\ DOMAIN list = 1..Len(list)
      /\ Len(list) \in Nat
  BY <1>1 DEF KeptOf
<1>3. a \in Seq(C) /\ DOMAIN a = 1..(m + 1) /\ a[m + 1] = list[n] /\ \A j \in 1..m : a[j] = k[j]
  BY <1>1, <1>2
<1> HIDE DEF a
<1>4. \A j \in 1..m : \E i \in 1..(n - 1) : i >= j /\ list[i] \notin S /\ k[j] = list[i]
  BY <1>2 DEF KeptOf
<1>5. m <= n - 1
  <2>1. CASE m = 0
    BY <2>1
  <2>2. CASE m # 0
    BY <2>2, <1>4
  <2> QED
    BY <2>1, <2>2
<1>6. \A j \in 1..m : k[j] # list[n]
  BY <1>2, <1>4 DEF Distinct
<1>7. Distinct(a)
  BY <1>2, <1>3, <1>6 DEF KeptOf, Distinct
<1>8. ASSUME NEW j \in DOMAIN a
      PROVE  \E i \in 1..n : i >= j /\ list[i] \notin S /\ a[j] = list[i]
  <2>1. CASE j = m + 1
    BY <2>1, <1>3, <1>5
  <2>2. CASE j # m + 1
    <3>1. j \in 1..m /\ a[j] = k[j]
      BY <2>2, <1>3
    <3>2. PICK i \in 1..(n - 1) : i >= j /\ list[i] \notin S /\ k[j] = list[i]
      BY <3>1, <1>4
    <3> QED
      BY <3>1, <3>2
  <2> QED
    BY <2>1, <2>2
<1>9. ASSUME NEW i \in 1..n, list[i] \notin S PROVE \E j \in DOMAIN a : a[j] = list[i]
  <2>1. CASE i = n
    BY <2>1, <1>3
  <2>2. CASE i # n
    <3>1. PICK j \in 1..m : k[j] = list[i]
      BY <2>2, <1>2, <1>9 DEF KeptOf
    <3> QED
      BY <3>1, <1>3
  <2> QED
    BY <2>1, <2>2
<1> QED
  BY <1>3, <1>7, <1>8, <1>9 DEF KeptOf, a

LEMMA KeptSkips ==
  ASSUME NEW C, NEW list \in Seq(C), NEW S, NEW n \in 1..Len(list),
         list[n] \in S, NEW k, KeptOf(k, C, list, S, n - 1)
  PROVE  KeptOf(k, C, list, S, n)
BY DEF KeptOf

LEMMA WithoutIs ==
  ASSUME NEW C, NEW list \in Seq(C), Distinct(list), NEW S
  PROVE  KeptOf(Without(list, S), C, list, S, Len(list))
<1> DEFINE f == Kept(list, S)
           T == {n \in 0..Len(list) : ~KeptOf(f[n], C, list, S, n)}
<1>1. \A i \in 0..Len(list) : f[i] = KeptAt(f, list, S, i)
  BY KeptExists
<1> HIDE DEF f
<1>2. Len(list) \in Nat
  OBVIOUS
<1>3. T = {}
  <2> SUFFICES ASSUME T # {} PROVE FALSE
    OBVIOUS
  <2>1. T \in SUBSET Nat
    BY <1>2
  <2>2. PICK n \in T : \A m \in T : n <= m
    BY <2>1, LeastNat
  <2>3. n # 0
    <3>1. f[0] = << >>
      BY <1>1, <1>2 DEF KeptAt
    <3>2. KeptOf(<< >>, C, list, S, 0)
      BY DEF KeptOf, Distinct
    <3> QED
      BY <3>1, <3>2
  <2>4. n \in 1..Len(list) /\ n - 1 \in 0..Len(list) /\ n - 1 \notin T
    BY <1>2, <2>2, <2>3
  <2>5. KeptOf(f[n - 1], C, list, S, n - 1)
    BY <2>4
  <2>6. CASE list[n] \in S
    <3>1. f[n] = f[n - 1]
      BY <1>1, <2>3, <2>4, <2>6 DEF KeptAt
    <3> QED
      BY <2>4, <2>5, <2>6, <3>1, KeptSkips
  <2>7. CASE list[n] \notin S
    <3>1. f[n] = Append(f[n - 1], list[n])
      BY <1>1, <2>3, <2>4, <2>7 DEF KeptAt
    <3> QED
      BY <2>4, <2>5, <2>7, <3>1, KeptAppends
  <2> QED
    BY <2>6, <2>7
<1> QED
  BY <1>2, <1>3, WithoutIsKept DEF f

-----------------------------------------------------------------------------
(***************************************************************************)
(* The invariant.  gone are the coroutines whose connection is not listed  *)
(* for good; everybody else who is not listed is broken, so that a command *)
(* with the wrong role never passes its echo.                              *)
(***************************************************************************)
Gone == {"new", "notice", "done"}

Handlers == [pc : PCs, given : Roles \cup {None}, role : Roles \cup {None},
             cmd : Commands \cup {None}, cast : Broadcasts]

Fresh(cast) == cast.idx = 1 /\ cast.target = None /\ cast.seen = {} /\ cast.failed = {}

\* r is the coroutine of a connection, ur its role, br whether it is broken.
ConnOK(r, ur, br) ==
  /\ r.pc \in Gone => ur = None
  /\ r.pc \notin Gone => ur # None \/ br = TRUE
  /\ ur # None => ur = r.given
  /\ r.pc = "echo" => r.role = r.given \/ br = TRUE
  /\ r.pc \in {"announce", "process", "respond"} => r.role = r.given
  /\ r.pc \in {"new", "welcome", "info", "receive", "leave", "garbled"} => Fresh(r.cast)

\* What the iterator has still to come to has not been sent to.
CastOK(cast, list) ==
  /\ cast.target \notin cast.seen
  /\ \A i \in DOMAIN list : i >= cast.idx => list[i] \notin cast.seen /\ list[i] # cast.target

ListOK ==
  /\ Distinct(active_connections)
  /\ \A d \in Conns : Listed(d) <=> user_roles[d] # None

HandlersOK ==
  \A d \in Conns :
    /\ ConnOK(h[d], user_roles[d], broken[d])
    /\ CastOK(h[d].cast, active_connections)
    /\ \A e \in h[d].cast.failed : broken[e] = TRUE
    /\ \A e \in Conns : h[e].pc = "new" => e \notin h[d].cast.seen /\ e # h[d].cast.target

ChatInv == TypeOK /\ ListOK /\ HandlersOK

LEMMA InitInv == Init => ChatInv
<1> SUFFICES ASSUME Init PROVE ChatInv
  OBVIOUS
<1>1. NoBroadcast \in Broadcasts /\ NoBroadcast.idx = 1 /\ NoBroadcast.target = None
      /\ NoBroadcast.seen = {} /\ NoBroadcast.failed = {}
  BY DEF NoBroadcast, Broadcasts
<1>2. NewHandler.pc = "new" /\ NewHandler.cast = NoBroadcast /\ NewHandler.given = None
  BY DEF NewHandler
<1>3. NewHandler \in Handlers
  BY <1>1 DEF NewHandler, Handlers, PCs
<1>4. active_connections = << >> /\ user_roles = [c \in Conns |-> None]
      /\ h = [c \in Conns |-> NewHandler] /\ broken = [c \in Conns |-> FALSE]
  BY DEF Init
<1>5. TypeOK
  <2>1. h \in [Conns -> Handlers]
    BY <1>3, <1>4
  <2> QED
    BY <1>4, <2>1, MaxAssumption DEF Init, TypeOK, Handlers
<1>6. ListOK
  BY <1>4 DEF ListOK, Listed, Distinct
<1>7. ASSUME NEW d \in Conns
      PROVE  /\ ConnOK(h[d], user_roles[d], broken[d])
             /\ CastOK(h[d].cast, active_connections)
             /\ \A e \in h[d].cast.failed : broken[e] = TRUE
             /\ \A e \in Conns : h[e].pc = "new" => e \notin h[d].cast.seen /\ e # h[d].cast.target
  <2>1. h[d] = NewHandler /\ user_roles[d] = None
    BY <1>4
  <2> QED
    BY <1>1, <1>2, <1>4, <2>1, NoneAssumption DEF ConnOK, CastOK, Gone, Fresh
<1> QED
  BY <1>5, <1>6, <1>7 DEF ChatInv, HandlersOK

-----------------------------------------------------------------------------
\* A list from which connections have gone, or which is as it was.
Shrinks(S) ==
  /\ active_connections' \in Seq(Conns) /\ Distinct(active_connections')
  /\ \A j \in DOMAIN active_connections' :
       \E i \in DOMAIN active_connections : i >= j /\ active_connections'[j] = active_connections[i]
  /\ user_roles' \in [Conns -> Roles \cup {None}]
  /\ \A d \in Conns : user_roles'[d] = IF d \in S THEN None ELSE user_roles[d]
  /\ \A d \in Conns : Listed(d)' <=> user_roles'[d] # None

LEMMA SameShrinks == ChatInv /\ UNCHANGED manager => Shrinks({})
<1> SUFFICES ASSUME ChatInv, UNCHANGED manager PROVE Shrinks({})
  OBVIOUS
<1>1. DOMAIN active_connections \subseteq Nat
  BY DEF ChatInv, TypeOK
<1> QED
  BY <1>1 DEF ChatInv, TypeOK, ListOK, Listed, manager, Shrinks

LEMMA DisconnectShrinks ==
  ASSUME ChatInv, NEW S, Disconnect(S) PROVE Shrinks(S)
<1> DEFINE list == active_connections
           w    == Without(list, S)
<1>1. list \in Seq(Conns) /\ Distinct(list) /\ DOMAIN list = 1..Len(list)
  BY DEF ChatInv, TypeOK, ListOK
<1>2. KeptOf(w, Conns, list, S, Len(list))
  BY <1>1, WithoutIs
<1>3. active_connections' = w /\ user_roles' = [d \in Conns |-> IF d \in S THEN None ELSE user_roles[d]]
  BY DEF Disconnect
<1> HIDE DEF w
<1>4. user_roles' \in [Conns -> Roles \cup {None}]
      /\ \A d \in Conns : user_roles'[d] = IF d \in S THEN None ELSE user_roles[d]
  BY <1>3 DEF ChatInv, TypeOK
<1>5. \A d \in Conns : Listed(d)' <=> Listed(d) /\ d \notin S
  <2>1. \A d \in Conns : Listed(d)' <=> \E j \in DOMAIN w : w[j] = d
    BY <1>3 DEF Listed
  <2>2. \A j \in DOMAIN w : \E i \in DOMAIN list : list[i] \notin S /\ w[j] = list[i]
    BY <1>1, <1>2 DEF KeptOf
  <2>3. \A i \in DOMAIN list : list[i] \notin S => \E j \in DOMAIN w : w[j] = list[i]
    BY <1>1, <1>2 DEF KeptOf
  <2>4. \A d \in Conns : Listed(d) <=> \E i \in DOMAIN list : list[i] = d
    BY DEF Listed
  <2> HIDE DEF list
  <2> QED
    BY <2>1, <2>2, <2>3, <2>4
<1>6. \A d \in Conns : Listed(d)' <=> user_roles'[d] # None
  BY <1>4, <1>5 DEF ChatInv, ListOK
<1> QED
  BY <1>1, <1>2, <1>3, <1>4, <1>6 DEF KeptOf, Shrinks

\* Every step of a coroutine after Connect: it becomes r, and S has left the list.
LEMMA CoroutineStep ==
  ASSUME ChatInv, NEW c \in Conns, NEW r \in Handlers, NEW S, Shrinks(S),
         h' = [h EXCEPT ![c] = r],
         link' \in [Conns -> {"open", "closed"}], broken' \in [Conns -> BOOLEAN],
         turn' \in Conns \cup {None}, taken' \in 0..MaxCommands,
         \A d \in Conns : broken[d] = TRUE => broken'[d] = TRUE,
         \A d \in S : d # c => broken'[d] = TRUE,
         r.pc # "new",
         ConnOK(r, user_roles'[c], broken'[c]),
         CastOK(r.cast, active_connections'),
         \A e \in r.cast.failed : broken'[e] = TRUE,
         \A e \in Conns : h[e].pc = "new" => e \notin r.cast.seen /\ e # r.cast.target
  PROVE  ChatInv'
<1>1. h \in [Conns -> Handlers]
  BY DEF ChatInv, TypeOK, Handlers
<1>2. h' \in [Conns -> Handlers] /\ \A d \in Conns : h'[d] = IF d = c THEN r ELSE h[d]
  BY <1>1
<1>3. TypeOK'
  BY <1>2 DEF TypeOK, Handlers, Shrinks
<1>4. ListOK'
  BY DEF ListOK, Shrinks
<1>5. ASSUME NEW d \in Conns
      PROVE  /\ ConnOK(h'[d], user_roles'[d], broken'[d])
             /\ CastOK(h'[d].cast, active_connections')
             /\ \A e \in h'[d].cast.failed : broken'[e] = TRUE
             /\ \A e \in Conns : h'[e].pc = "new" => e \notin h'[d].cast.seen /\ e # h'[d].cast.target
  <2>1. CASE d = c
    <3>1. h'[d] = r
      BY <1>2, <2>1
    <3>2. \A e \in Conns : h'[e].pc = "new" => h[e].pc = "new"
      BY <1>2
    <3> QED
      BY <2>1, <3>1, <3>2
  <2>2. CASE d # c
    <3>1. PICK q \in Handlers : q = h[d] /\ q = h'[d]
      BY <1>1, <1>2, <2>2
    <3>2. /\ ConnOK(q, user_roles[d], broken[d])
          /\ CastOK(q.cast, active_connections)
          /\ \A e \in q.cast.failed : e \in Conns /\ broken[e] = TRUE
          /\ \A e \in Conns : h[e].pc = "new" => e \notin q.cast.seen /\ e # q.cast.target
      <4>1. q.cast.failed \subseteq Conns
        BY DEF Handlers, Broadcasts
      <4>2. /\ ConnOK(h[d], user_roles[d], broken[d])
            /\ CastOK(h[d].cast, active_connections)
            /\ \A e \in h[d].cast.failed : broken[e] = TRUE
            /\ \A e \in Conns : h[e].pc = "new" => e \notin h[d].cast.seen /\ e # h[d].cast.target
        BY DEF ChatInv, HandlersOK
      <4>3. h[d] = q
        BY <3>1
      <4> HIDE <3>1
      <4> QED
        BY <4>1, <4>2, <4>3, Zenon
    <3>3. ConnOK(q, user_roles'[d], broken'[d])
      <4>1. CASE d \in S
        <5>1. user_roles'[d] = None /\ broken'[d] = TRUE
          BY <4>1, <2>2 DEF Shrinks
        <5> QED
          BY <3>2, <5>1 DEF ConnOK
      <4>2. CASE d \notin S
        <5>1. user_roles'[d] = user_roles[d] /\ (broken[d] = TRUE => broken'[d] = TRUE)
          BY <4>2 DEF Shrinks
        <5> QED
          BY <3>2, <5>1 DEF ConnOK
      <4> QED
        BY <4>1, <4>2
    <3>4. CastOK(q.cast, active_connections')
      <4> SUFFICES ASSUME NEW j \in DOMAIN active_connections', j >= q.cast.idx
                   PROVE  active_connections'[j] \notin q.cast.seen /\ active_connections'[j] # q.cast.target
        BY <3>2 DEF CastOK
      <4>1. PICK i \in DOMAIN active_connections :
              i >= j /\ active_connections'[j] = active_connections[i]
        BY DEF Shrinks
      <4>2. i \in Nat /\ j \in Nat /\ q.cast.idx \in Nat
        BY DEF ChatInv, TypeOK, Shrinks, Handlers, Broadcasts
      <4>3. i >= q.cast.idx
        BY <4>1, <4>2
      <4> QED
        BY <3>2, <4>1, <4>3 DEF CastOK
    <3>5. \A e \in Conns : h'[e].pc = "new" => h[e].pc = "new"
      BY <1>2
    <3> QED
      BY <3>1, <3>2, <3>3, <3>4, <3>5
  <2> QED
    BY <2>1, <2>2
<1> QED
  BY <1>3, <1>4, <1>5 DEF ChatInv, HandlersOK

-----------------------------------------------------------------------------
Turning == turn' \in Conns \cup {None}

Breaking ==
  /\ broken' \in [Conns -> BOOLEAN]
  /\ \A d \in Conns : broken[d] = TRUE => broken'[d] = TRUE

LEMMA FreshOK ==
  ASSUME NEW cast, Fresh(cast), NEW list \in Seq(Conns)
  PROVE  /\ CastOK(cast, list)
         /\ \A e \in cast.failed : broken'[e] = TRUE
         /\ \A e \in Conns : h[e].pc = "new" => e \notin cast.seen /\ e # cast.target
BY NoneAssumption DEF Fresh, CastOK

\* A step that leaves the list alone.
LEMMA SameListStep ==
  ASSUME ChatInv, NEW c \in Conns, NEW r \in Handlers, UNCHANGED manager,
         h' = [h EXCEPT ![c] = r],
         link' = link, Breaking, Turning, taken' \in 0..MaxCommands,
         r.pc # "new", ConnOK(r, user_roles[c], broken'[c]),
         CastOK(r.cast, active_connections),
         \A e \in r.cast.failed : broken'[e] = TRUE,
         \A e \in Conns : h[e].pc = "new" => e \notin r.cast.seen /\ e # r.cast.target
  PROVE  ChatInv'
<1>1. Shrinks({})
  BY SameShrinks
<1>2. link' \in [Conns -> {"open", "closed"}]
  BY DEF ChatInv, TypeOK
<1>3. ConnOK(r, user_roles'[c], broken'[c]) /\ CastOK(r.cast, active_connections')
  BY DEF manager
<1> QED
  BY <1>1, <1>2, <1>3, CoroutineStep DEF Breaking, Turning

\* A step that leaves the list alone; the broadcast of r is new, or none.
LEMMA FreshStep ==
  ASSUME ChatInv, NEW c \in Conns, NEW r \in Handlers, UNCHANGED manager,
         h' = [h EXCEPT ![c] = r],
         link' = link, Breaking, Turning, taken' \in 0..MaxCommands,
         r.pc # "new", ConnOK(r, user_roles[c], broken'[c]), Fresh(r.cast)
  PROVE  ChatInv'
<1>1. active_connections \in Seq(Conns)
  BY DEF ChatInv, TypeOK
<1> QED
  BY <1>1, FreshOK, SameListStep

\* A step that leaves the list and the broadcast of the coroutine alone.
LEMMA SameCastStep ==
  ASSUME ChatInv, NEW c \in Conns, NEW r \in Handlers, UNCHANGED manager,
         h' = [h EXCEPT ![c] = r],
         link' = link, Breaking, Turning, taken' \in 0..MaxCommands,
         r.pc # "new", ConnOK(r, user_roles[c], broken'[c]), r.cast = h[c].cast
  PROVE  ChatInv'
<1>1. r.cast.failed \subseteq Conns
  BY DEF Handlers, Broadcasts
<1>2. /\ CastOK(r.cast, active_connections)
      /\ \A e \in r.cast.failed : broken[e] = TRUE
      /\ \A e \in Conns : h[e].pc = "new" => e \notin r.cast.seen /\ e # r.cast.target
  BY DEF ChatInv, HandlersOK
<1>3. \A e \in r.cast.failed : broken'[e] = TRUE
  BY <1>1, <1>2 DEF Breaking
<1> QED
  BY <1>2, <1>3, SameListStep

\* A step in which S leaves the list.
LEMMA DroppingStep ==
  ASSUME ChatInv, NEW c \in Conns, NEW r \in Handlers, NEW S, Disconnect(S),
         h' = [h EXCEPT ![c] = r],
         link' = link, Breaking, Turning, taken' = taken,
         \A d \in S : d # c => broken'[d] = TRUE,
         r.pc # "new", ConnOK(r, IF c \in S THEN None ELSE user_roles[c], broken'[c]), Fresh(r.cast)
  PROVE  ChatInv'
<1>1. Shrinks(S)
  BY DisconnectShrinks
<1>2. active_connections' \in Seq(Conns) /\ user_roles'[c] = IF c \in S THEN None ELSE user_roles[c]
  BY <1>1 DEF Shrinks
<1>3. link' \in [Conns -> {"open", "closed"}] /\ taken' \in 0..MaxCommands
  BY DEF ChatInv, TypeOK
<1>4. /\ CastOK(r.cast, active_connections')
      /\ \A e \in r.cast.failed : broken'[e] = TRUE
      /\ \A e \in Conns : h[e].pc = "new" => e \notin r.cast.seen /\ e # r.cast.target
  BY <1>2, FreshOK
<1>5. ConnOK(r, user_roles'[c], broken'[c])
  BY <1>2
<1> QED
  BY <1>1, <1>3, <1>4, <1>5, CoroutineStep DEF Breaking, Turning

LEMMA SameBroken == ChatInv /\ UNCHANGED broken => Breaking
BY DEF ChatInv, TypeOK, Breaking

LEMMA NewlyBroken ==
  ASSUME ChatInv, NEW d \in Conns, Breaks(d) PROVE Breaking /\ broken'[d] = TRUE
BY DEF ChatInv, TypeOK, Breaking, Breaks

LEMMA TurnsTurn ==
  ASSUME NEW c \in Conns, Turns(c) \/ Resumes(c) \/ Runs(c) \/ Waits(c) PROVE Turning
BY DEF Turns, Resumes, Runs, Waits, Turning

\* What is known of the coroutine of c.
LEMMA Known ==
  ASSUME ChatInv, NEW c \in Conns
  PROVE  h[c] \in Handlers /\ ConnOK(h[c], user_roles[c], broken[c]) /\ taken \in 0..MaxCommands
         /\ user_roles[c] \in Roles \cup {None} /\ broken[c] \in BOOLEAN
BY DEF ChatInv, TypeOK, HandlersOK, Handlers

LEMMA NoBroadcastIs == NoBroadcast \in Broadcasts /\ Fresh(NoBroadcast)
BY DEF NoBroadcast, Broadcasts, Fresh

LEMMA DueIs ==
  ASSUME NEW b \in Broadcasts, Fresh(b), NEW due \in SUBSET Conns
  PROVE  [b EXCEPT !.due = due] \in Broadcasts /\ Fresh([b EXCEPT !.due = due])
BY DEF Broadcasts, Fresh

\* A broadcast that begins.
LEMMA CastingIs ==
  ASSUME NEW list \in Seq(Conns), NEW exclude \in Conns \cup {None}
  PROVE  Casting(list, exclude) \in Broadcasts /\ Fresh(Casting(list, exclude))
<1> DEFINE due == {list[i] : i \in DOMAIN list} \ {exclude}
<1>1. due \in SUBSET Conns
  OBVIOUS
<1> HIDE DEF due
<1>2. Casting(list, exclude) = [NoBroadcast EXCEPT !.due = due]
  BY DEF Casting, due
<1> QED
  BY <1>1, <1>2, NoBroadcastIs, DueIs

\* A coroutine that comes to rest, or is about to leave.
LEMMA SettleIs ==
  ASSUME NEW q \in Handlers, NEW pc \in PCs
  PROVE  LET r == [NewHandler EXCEPT !.pc = pc, !.given = q.given]
         IN  r \in Handlers /\ r.pc = pc /\ r.given = q.given /\ Fresh(r.cast)
<1>1. NoBroadcast \in Broadcasts /\ Fresh(NoBroadcast)
  BY NoBroadcastIs
<1>2. PICK n \in Handlers : n = NewHandler
  BY <1>1 DEF NewHandler, Handlers, PCs
<1>3. Fresh(n.cast)
  BY <1>1, <1>2 DEF NewHandler
<1>4. q.given \in Roles \cup {None}
  BY DEF Handlers
<1>5. PICK r : r = [n EXCEPT !.pc = pc, !.given = q.given]
  OBVIOUS
<1>6. r \in Handlers /\ r.pc = pc /\ r.given = q.given /\ r.cast = n.cast
  BY <1>4, <1>5 DEF Handlers
<1> QED
  BY <1>2, <1>3, <1>5, <1>6

-----------------------------------------------------------------------------
\* A coroutine that only goes on to pc.
LEMMA GotoIs ==
  ASSUME ChatInv, NEW c \in Conns, NEW pc \in PCs, Goto(c, pc)
  PROVE  \E r \in Handlers :
           /\ h' = [h EXCEPT ![c] = r]
           /\ r.pc = pc /\ r.given = h[c].given /\ r.role = h[c].role /\ r.cast = h[c].cast
<1>1. h[c] \in Handlers
  BY Known
<1>2. PICK r : r = [h[c] EXCEPT !.pc = pc]
  OBVIOUS
<1>3. h' = [h EXCEPT ![c] = r]
  BY <1>2 DEF Goto
<1>4. r \in Handlers /\ r.pc = pc /\ r.given = h[c].given /\ r.role = h[c].role /\ r.cast = h[c].cast
  BY <1>1, <1>2 DEF Handlers
<1> QED
  BY <1>3, <1>4

LEMMA CloseOK == ASSUME ChatInv, NEW c \in Conns, Close(c) PROVE ChatInv'
<1>1. UNCHANGED <<active_connections, user_roles, broken, turn, h, taken>>
  BY DEF Close, manager
<1>2. link' \in [Conns -> {"open", "closed"}]
  BY DEF Close, ChatInv, TypeOK
<1>3. TypeOK'
  BY <1>1, <1>2 DEF ChatInv, TypeOK
<1>4. ListOK' /\ HandlersOK'
  BY <1>1 DEF ChatInv, ListOK, Listed, HandlersOK
<1> QED
  BY <1>3, <1>4 DEF ChatInv

LEMMA GreetOK == ASSUME ChatInv, NEW c \in Conns, Greet(c) PROVE ChatInv'
<1>1. PICK pc \in {"info", "receive"} : Goto(c, pc)
  BY DEF Greet
<1>2. pc \in PCs /\ pc \notin Gone /\ pc # "new"
  BY DEF PCs, Gone
<1>3. PICK r \in Handlers : /\ h' = [h EXCEPT ![c] = r]
                            /\ r.pc = pc /\ r.given = h[c].given /\ r.cast = h[c].cast
  BY <1>1, <1>2, GotoIs
<1>4. Breaking /\ Turning /\ UNCHANGED <<manager, link, broken, taken>>
  BY SameBroken, TurnsTurn DEF Greet
<1>5. ConnOK(r, user_roles[c], broken'[c])
  BY <1>1, <1>2, <1>3, <1>4, Known DEF ConnOK, Greet, Greeting, Gone
<1> QED
  BY <1>2, <1>3, <1>4, <1>5, Known, SameCastStep

LEMMA GreetBrokenOK == ASSUME ChatInv, NEW c \in Conns, GreetBroken(c) PROVE ChatInv'
<1>1. Goto(c, "leave") /\ "leave" \in PCs
  BY DEF GreetBroken, PCs
<1>3. PICK r \in Handlers : /\ h' = [h EXCEPT ![c] = r]
                            /\ r.pc = "leave" /\ r.given = h[c].given /\ r.cast = h[c].cast
  BY <1>1, GotoIs
<1>4. Breaking /\ Turning /\ UNCHANGED <<manager, link, broken, taken>> /\ broken[c] = TRUE
  BY SameBroken, TurnsTurn, Known DEF GreetBroken
<1>5. ConnOK(r, user_roles[c], broken'[c])
  BY <1>3, <1>4, Known DEF ConnOK, GreetBroken, Greeting, Gone
<1> QED
  BY <1>3, <1>4, <1>5, Known, SameCastStep

LEMMA ReceiveBytesOK == ASSUME ChatInv, NEW c \in Conns, ReceiveBytes(c) PROVE ChatInv'
<1>1. Goto(c, "garbled") /\ "garbled" \in PCs
  BY DEF ReceiveBytes, PCs
<1>2. PICK r \in Handlers : /\ h' = [h EXCEPT ![c] = r]
                            /\ r.pc = "garbled" /\ r.given = h[c].given /\ r.cast = h[c].cast
  BY <1>1, GotoIs
<1>3. Breaking /\ Turning /\ UNCHANGED <<manager, link, broken, taken>>
  BY SameBroken, TurnsTurn DEF ReceiveBytes
<1>4. ConnOK(r, user_roles[c], broken'[c])
  BY <1>2, <1>3, Known DEF ConnOK, ReceiveBytes, At, Gone
<1> QED
  BY <1>2, <1>3, <1>4, Known, SameCastStep

LEMMA LeaveOK == ASSUME ChatInv, NEW c \in Conns, Leave(c) PROVE ChatInv'
<1>1. Goto(c, "done") /\ "done" \in PCs
  BY DEF Leave, PCs
<1>3. PICK r \in Handlers : /\ h' = [h EXCEPT ![c] = r]
                            /\ r.pc = "done" /\ r.given = h[c].given /\ r.cast = h[c].cast
  BY <1>1, GotoIs
<1>4. Breaking /\ Turning /\ UNCHANGED <<link, taken>>
  BY SameBroken, TurnsTurn DEF Leave
<1>5. ConnOK(r, None, broken'[c]) /\ Fresh(r.cast)
  BY <1>3, Known DEF ConnOK, Leave, Leaving, Gone
<1> QED
  BY <1>3, <1>4, <1>5, DroppingStep DEF Leave

\* Hangup and GreetFails.
LEMMA LeaveLoudlyOK ==
  ASSUME ChatInv, NEW c \in Conns, LeaveLoudly(c), Breaking, UNCHANGED <<link, taken>>
  PROVE  ChatInv'
<1>1. h[c] \in Handlers /\ Turning /\ Disconnect({c})
  BY Known, TurnsTurn DEF LeaveLoudly
<1>2. active_connections' \in Seq(Conns)
  BY <1>1, DisconnectShrinks DEF Shrinks
<1>3. PICK cast \in Broadcasts : Fresh(cast) /\ cast = Casting(active_connections', None)
  BY <1>2, CastingIs
<1>4. PICK r : r = [h[c] EXCEPT !.pc = "notice", !.cast = cast]
  OBVIOUS
<1>5. h' = [h EXCEPT ![c] = r]
  BY <1>3, <1>4 DEF LeaveLoudly
<1>6. r \in Handlers /\ r.pc = "notice" /\ r.cast = cast
  BY <1>1, <1>4 DEF Handlers, PCs
<1>7. ConnOK(r, None, broken'[c])
  BY <1>6 DEF ConnOK, Gone
<1> QED
  BY <1>1, <1>3, <1>5, <1>6, <1>7, DroppingStep

LEMMA ReceiveOK ==
  ASSUME ChatInv, NEW c \in Conns, NEW cmd \in Commands, Receive(c, cmd) PROVE ChatInv'
<1>1. PICK q \in Handlers : q = h[c] /\ ConnOK(q, user_roles[c], broken[c])
  BY Known
<1>2. PICK role \in Roles : role = get_user_role(c)
  BY Known DEF get_user_role, Roles
<1>3. PICK r : r = [q EXCEPT !.pc = "echo", !.cmd = cmd, !.role = role]
  OBVIOUS
<1>4. h' = [h EXCEPT ![c] = r]
  BY <1>1, <1>2, <1>3 DEF Receive
<1>5. r \in Handlers /\ r.pc = "echo" /\ r.given = q.given /\ r.role = role /\ r.cast = q.cast
  BY <1>3 DEF Handlers, PCs
<1>6. Breaking /\ Turning /\ UNCHANGED <<manager, link, broken>> /\ taken' \in 0..MaxCommands
  BY SameBroken, TurnsTurn, Known, MaxAssumption DEF Receive
<1>7. ConnOK(r, user_roles[c], broken'[c])
  BY <1>1, <1>2, <1>5, <1>6 DEF ConnOK, Gone, Receive, At, get_user_role
<1> QED
  BY <1>1, <1>4, <1>5, <1>6, <1>7, SameCastStep

\* A coroutine that begins a broadcast at pc.
LEMMA CastIs ==
  ASSUME ChatInv, NEW c \in Conns, NEW pc \in PCs,
         h' = [h EXCEPT ![c].pc = pc, ![c].cast = Casting(active_connections, c)]
  PROVE  \E r \in Handlers :
           /\ h' = [h EXCEPT ![c] = r]
           /\ r.pc = pc /\ r.given = h[c].given /\ r.role = h[c].role /\ Fresh(r.cast)
<1>1. h[c] \in Handlers /\ active_connections \in Seq(Conns)
  BY Known DEF ChatInv, TypeOK
<1>2. PICK cast \in Broadcasts : Fresh(cast) /\ cast = Casting(active_connections, c)
  BY <1>1, CastingIs
<1>3. PICK r : r = [h[c] EXCEPT !.pc = pc, !.cast = cast]
  OBVIOUS
<1>4. h' = [h EXCEPT ![c] = r]
  BY <1>2, <1>3
<1>5. r \in Handlers /\ r.pc = pc /\ r.given = h[c].given /\ r.role = h[c].role /\ r.cast = cast
  BY <1>1, <1>3 DEF Handlers
<1> QED
  BY <1>2, <1>4, <1>5

LEMMA EchoOK == ASSUME ChatInv, NEW c \in Conns, Echo(c) PROVE ChatInv'
<1>1. Breaking /\ Turning /\ UNCHANGED <<manager, link, broken, taken>> /\ broken'[c] = FALSE
  BY SameBroken, TurnsTurn, Known DEF Echo, Sendable
<1>2. h[c].pc = "echo" /\ ConnOK(h[c], user_roles[c], broken[c])
  BY Known DEF Echo, At
<1>3. ASSUME NEW r \in Handlers, r.pc \in {"process", "announce"},
             r.given = h[c].given, r.role = h[c].role
      PROVE  ConnOK(r, user_roles[c], broken'[c])
  BY <1>1, <1>2, <1>3 DEF ConnOK, Gone
<1>4. CASE Quiet(h[c].cmd)
  <2>1. Goto(c, "process") /\ "process" \in PCs
    BY <1>4 DEF Echo, PCs
  <2>2. PICK r \in Handlers : /\ h' = [h EXCEPT ![c] = r]
                              /\ r.pc = "process" /\ r.given = h[c].given
                              /\ r.role = h[c].role /\ r.cast = h[c].cast
    BY <2>1, GotoIs
  <2>3. ConnOK(r, user_roles[c], broken'[c])
    BY <1>3, <2>2
  <2> QED
    BY <1>1, <2>2, <2>3, Known, SameCastStep
<1>5. CASE ~Quiet(h[c].cmd)
  <2>1. "announce" \in PCs
        /\ h' = [h EXCEPT ![c].pc = "announce", ![c].cast = Casting(active_connections, c)]
    BY <1>5 DEF Echo, PCs
  <2>2. PICK r \in Handlers : /\ h' = [h EXCEPT ![c] = r]
                              /\ r.pc = "announce" /\ r.given = h[c].given
                              /\ r.role = h[c].role /\ Fresh(r.cast)
    BY <2>1, CastIs
  <2>3. ConnOK(r, user_roles[c], broken'[c])
    BY <1>3, <2>2
  <2> QED
    BY <1>1, <2>2, <2>3, Known, FreshStep
<1> QED
  BY <1>4, <1>5

LEMMA ProcessOK == ASSUME ChatInv, NEW c \in Conns, Process(c) PROVE ChatInv'
<1>1. Goto(c, "respond") /\ "respond" \in PCs
  BY DEF Process, PCs
<1>2. PICK r \in Handlers : /\ h' = [h EXCEPT ![c] = r]
                            /\ r.pc = "respond" /\ r.given = h[c].given
                            /\ r.role = h[c].role /\ r.cast = h[c].cast
  BY <1>1, GotoIs
<1>3. Breaking /\ Turning /\ UNCHANGED <<manager, link, broken, taken>>
  BY SameBroken, TurnsTurn DEF Process
<1>4. ConnOK(r, user_roles[c], broken'[c])
  BY <1>2, <1>3, Known DEF ConnOK, Process, At, Gone
<1> QED
  BY <1>2, <1>3, <1>4, Known, SameCastStep

\* A coroutine that settles at pc.
LEMMA SettlesIs ==
  ASSUME ChatInv, NEW c \in Conns, NEW pc \in PCs, Settle(c, pc)
  PROVE  \E r \in Handlers :
           h' = [h EXCEPT ![c] = r] /\ r.pc = pc /\ r.given = h[c].given /\ Fresh(r.cast)
<1>1. PICK q \in Handlers : q = h[c]
  BY Known
<1>2. PICK r : r = [NewHandler EXCEPT !.pc = pc, !.given = q.given]
  OBVIOUS
<1>3. r \in Handlers /\ r.pc = pc /\ r.given = q.given /\ Fresh(r.cast)
  BY <1>2, SettleIs
<1>4. h' = [h EXCEPT ![c] = r]
  BY <1>1, <1>2 DEF Settle
<1> QED
  BY <1>1, <1>3, <1>4

LEMMA RespondOK == ASSUME ChatInv, NEW c \in Conns, Respond(c) PROVE ChatInv'
<1>1. Breaking /\ Turning /\ UNCHANGED <<manager, link, broken, taken>>
  BY SameBroken, TurnsTurn DEF Respond
<1>2. h[c].pc = "respond" /\ ConnOK(h[c], user_roles[c], broken[c])
  BY Known DEF Respond, At
<1>3. ASSUME NEW r \in Handlers, r.pc \in {"declare", "receive"}, r.given = h[c].given,
             Fresh(r.cast)
      PROVE  ConnOK(r, user_roles[c], broken'[c])
  BY <1>1, <1>2, <1>3 DEF ConnOK, Gone
<1>4. CASE Public(h[c].cmd)
  <2>1. "declare" \in PCs
        /\ h' = [h EXCEPT ![c].pc = "declare", ![c].cast = Casting(active_connections, c)]
    BY <1>4 DEF Respond, PCs
  <2>2. PICK r \in Handlers : /\ h' = [h EXCEPT ![c] = r]
                              /\ r.pc = "declare" /\ r.given = h[c].given /\ Fresh(r.cast)
    BY <2>1, CastIs
  <2>3. ConnOK(r, user_roles[c], broken'[c])
    BY <1>3, <2>2
  <2> QED
    BY <1>1, <2>2, <2>3, Known, FreshStep
<1>5. CASE ~Public(h[c].cmd)
  <2>1. Settle(c, "receive") /\ "receive" \in PCs
    BY <1>5 DEF Respond, PCs
  <2>2. PICK r \in Handlers : /\ h' = [h EXCEPT ![c] = r] /\ r.pc = "receive"
                              /\ r.given = h[c].given /\ Fresh(r.cast)
    BY <2>1, SettlesIs
  <2>3. ConnOK(r, user_roles[c], broken'[c])
    BY <1>3, <2>2
  <2> QED
    BY <1>1, <2>2, <2>3, Known, FreshStep
<1> QED
  BY <1>4, <1>5

LEMMA ReplyFailsOK == ASSUME ChatInv, NEW c \in Conns, ReplyFails(c) PROVE ChatInv'
<1>1. Breaking /\ Turning /\ UNCHANGED <<manager, link, taken>> /\ broken'[c] = TRUE
  BY NewlyBroken, TurnsTurn DEF ReplyFails
<1>2. Settle(c, "leave") /\ "leave" \in PCs
  BY DEF ReplyFails, PCs
<1>3. PICK r \in Handlers : /\ h' = [h EXCEPT ![c] = r] /\ r.pc = "leave"
                            /\ r.given = h[c].given /\ Fresh(r.cast)
  BY <1>2, SettlesIs
<1>4. ConnOK(r, user_roles[c], broken'[c])
  BY <1>1, <1>3, Known DEF ConnOK, Gone, ReplyFails, At
<1> QED
  BY <1>1, <1>3, <1>4, Known, FreshStep

-----------------------------------------------------------------------------
\* A coroutine in a broadcast that only goes on with it.
LEMMA CastStep ==
  ASSUME ChatInv, NEW c \in Conns, NEW k \in Broadcasts, Broadcasting(c),
         h' = [h EXCEPT ![c].cast = k],
         UNCHANGED manager, link' = link, taken' = taken, Breaking, Turning,
         CastOK(k, active_connections),
         \A e \in k.failed : broken'[e] = TRUE,
         \A e \in Conns : h[e].pc = "new" => e \notin k.seen /\ e # k.target
  PROVE  ChatInv'
<1>1. PICK q \in Handlers : q = h[c]
  BY Known
<1>2. PICK r \in Handlers : r = [q EXCEPT !.cast = k]
  BY DEF Handlers
<1>3. h' = [h EXCEPT ![c] = r]
  BY <1>1, <1>2
<1>4. r.pc = q.pc /\ r.given = q.given /\ r.role = q.role /\ r.cast = k
  BY <1>2 DEF Handlers
<1>5. r.pc \in {"announce", "declare", "notice"}
  BY <1>1, <1>4 DEF Broadcasting
<1>6. ConnOK(q, user_roles[c], broken[c]) /\ (broken[c] = TRUE => broken'[c] = TRUE)
  BY <1>1, Known DEF Breaking
<1>7. r.pc # "new" /\ ConnOK(r, user_roles[c], broken'[c])
  BY <1>4, <1>5, <1>6 DEF ConnOK, Gone
<1>8. /\ CastOK(r.cast, active_connections)
      /\ \A e \in r.cast.failed : broken'[e] = TRUE
      /\ \A e \in Conns : h[e].pc = "new" => e \notin r.cast.seen /\ e # r.cast.target
  BY <1>4
<1>9. taken' \in 0..MaxCommands
  BY Known
<1> QED
  BY <1>3, <1>7, <1>8, <1>9, SameListStep

\* What is known of the broadcast of c.
LEMMA KnownCast ==
  ASSUME ChatInv, NEW c \in Conns
  PROVE  /\ h[c].cast \in Broadcasts /\ CastOK(h[c].cast, active_connections)
         /\ \A e \in h[c].cast.failed : e \in Conns /\ broken[e] = TRUE
         /\ \A e \in Conns : h[e].pc = "new" => e \notin h[c].cast.seen /\ e # h[c].cast.target
         /\ active_connections \in Seq(Conns) /\ Distinct(active_connections)
         /\ \A i \in DOMAIN active_connections : h[active_connections[i]].pc # "new"
<1>1. h[c].cast \in Broadcasts /\ h[c].cast.failed \subseteq Conns
  BY Known DEF Handlers, Broadcasts
<1>2. active_connections \in Seq(Conns) /\ Distinct(active_connections)
  BY DEF ChatInv, TypeOK, ListOK
<1>3. ASSUME NEW i \in DOMAIN active_connections PROVE h[active_connections[i]].pc # "new"
  <2>1. PICK d \in Conns : d = active_connections[i]
    BY <1>2
  <2>2. user_roles[d] # None
    BY <2>1 DEF ChatInv, ListOK, Listed
  <2> QED
    BY <2>1, <2>2, Known DEF ConnOK, Gone
<1> QED
  BY <1>1, <1>2, <1>3 DEF ChatInv, HandlersOK

LEMMA PickOK == ASSUME ChatInv, NEW c \in Conns, Pick(c) PROVE ChatInv'
<1>0. PICK list \in Seq(Conns) :
        list = active_connections /\ Distinct(list) /\ \A i \in DOMAIN list : h[list[i]].pc # "new"
  BY KnownCast
<1>1. PICK q \in Broadcasts : q = h[c].cast
  BY KnownCast
<1>2. /\ CastOK(q, list) /\ \A e \in q.failed : broken[e] = TRUE
      /\ \A e \in Conns : h[e].pc = "new" => e \notin q.seen /\ e # q.target
  BY <1>0, <1>1, KnownCast
<1>3. q.idx \in DOMAIN list /\ q.target = None /\ q.idx \in Nat /\ DOMAIN list \subseteq Nat
  BY <1>0, <1>1 DEF Pick, Broadcasts
<1>4. Breaking /\ Turning /\ UNCHANGED <<manager, link, broken, taken>> /\ Broadcasting(c)
  BY SameBroken, TurnsTurn DEF Pick
<1>5. PICK next \in Conns : next = list[q.idx]
  BY <1>3
<1>6. CASE next = Excluded(c)
  <2>1. PICK k : k = [q EXCEPT !.idx = q.idx + 1]
    OBVIOUS
  <2>2. h' = [h EXCEPT ![c].cast = k]
    BY <1>0, <1>1, <1>5, <1>6, <2>1 DEF Pick
  <2>3. k \in Broadcasts /\ k.idx = q.idx + 1 /\ k.target = None /\ k.seen = q.seen /\ k.failed = q.failed
    BY <1>3, <2>1 DEF Broadcasts
  <2>4. CastOK(k, list)
    BY <1>2, <1>3, <2>3 DEF CastOK
  <2> QED
    BY <1>0, <1>2, <1>3, <1>4, <2>2, <2>3, <2>4, CastStep
<1>7. CASE next # Excluded(c)
  <2>1. PICK k : k = [q EXCEPT !.idx = q.idx + 1, !.target = next]
    OBVIOUS
  <2>2. h' = [h EXCEPT ![c].cast = k]
    BY <1>0, <1>1, <1>5, <1>7, <2>1 DEF Pick
  <2>3. k \in Broadcasts /\ k.idx = q.idx + 1 /\ k.target = next /\ k.seen = q.seen /\ k.failed = q.failed
    <3>1. PICK n \in Nat \ {0} : n = q.idx + 1
      BY <1>3
    <3>2. k = [q EXCEPT !.idx = n, !.target = next]
      BY <2>1, <3>1
    <3> QED
      BY <3>1, <3>2 DEF Broadcasts
  <2>4. next \notin q.seen
    BY <1>2, <1>3, <1>5 DEF CastOK
  <2>5. \A i \in DOMAIN list : i >= q.idx + 1 => list[i] \notin q.seen /\ list[i] # next
    BY <1>0, <1>2, <1>3, <1>5 DEF CastOK, Distinct
  <2>6. CastOK(k, list)
    BY <2>3, <2>4, <2>5 DEF CastOK
  <2>7. \A e \in Conns : h[e].pc = "new" => e \notin k.seen /\ e # k.target
    BY <1>0, <1>2, <1>3, <1>5, <2>3
  <2> QED
    BY <1>0, <1>2, <1>4, <2>2, <2>3, <2>6, <2>7, CastStep
<1> QED
  BY <1>6, <1>7

LEMMA DeliverOK == ASSUME ChatInv, NEW c \in Conns, Deliver(c) PROVE ChatInv'
<1> DEFINE list == active_connections
<1>1. PICK q \in Broadcasts : q = h[c].cast
  BY KnownCast
<1>2. /\ CastOK(q, list) /\ \A e \in q.failed : e \in Conns /\ broken[e] = TRUE
      /\ \A e \in Conns : h[e].pc = "new" => e \notin q.seen /\ e # q.target
  BY <1>1, KnownCast
<1>3. PICK t \in Conns : t = q.target
  BY <1>1 DEF Deliver, Broadcasts
<1>4. Turning /\ UNCHANGED manager /\ link' = link /\ taken' = taken /\ Broadcasting(c)
  BY TurnsTurn DEF Deliver
\* k is the broadcast that has come to t.
<1>5. ASSUME NEW k \in Broadcasts, k.idx = q.idx, k.target = None, k.seen = q.seen \cup {t}
      PROVE  /\ CastOK(k, list)
             /\ \A e \in Conns : h[e].pc = "new" => e \notin k.seen /\ e # k.target
  <2>1. \A i \in DOMAIN list : list[i] # None
    <3>1. list \in Seq(Conns)
      BY KnownCast
    <3> HIDE DEF list
    <3> QED
      BY <3>1, NoneAssumption
  <2>2. None \notin k.seen
    BY NoneAssumption DEF Broadcasts
  <2>3. CastOK(k, list)
    BY <1>2, <1>3, <1>5, <2>1, <2>2 DEF CastOK
  <2> QED
    BY <1>2, <1>3, <1>5, <2>3, NoneAssumption
<1>6. CASE Sendable(t)
  <2>1. PICK k : k = [q EXCEPT !.target = None, !.seen = q.seen \cup {t}]
    OBVIOUS
  <2>2. h' = [h EXCEPT ![c].cast = k] /\ UNCHANGED broken
    BY <1>1, <1>3, <1>6, <2>1 DEF Deliver
  <2>3. k \in Broadcasts /\ k.idx = q.idx /\ k.target = None /\ k.seen = q.seen \cup {t}
        /\ k.failed = q.failed
    BY <2>1 DEF Broadcasts
  <2> QED
    BY <1>2, <1>4, <1>5, <2>2, <2>3, SameBroken, CastStep
<1>7. CASE ~Sendable(t)
  <2>1. PICK k : k = [q EXCEPT !.target = None, !.seen = q.seen \cup {t}, !.failed = q.failed \cup {t}]
    OBVIOUS
  <2>2. h' = [h EXCEPT ![c].cast = k] /\ Breaks(t)
    BY <1>1, <1>3, <1>7, <2>1 DEF Deliver
  <2>3. k \in Broadcasts /\ k.idx = q.idx /\ k.target = None /\ k.seen = q.seen \cup {t}
        /\ k.failed = q.failed \cup {t}
    BY <2>1 DEF Broadcasts
  <2>4. Breaking /\ \A e \in k.failed : broken'[e] = TRUE
    BY <1>2, <2>2, <2>3, NewlyBroken DEF Breaking
  <2> QED
    BY <1>4, <1>5, <2>2, <2>3, <2>4, CastStep
<1> QED
  BY <1>6, <1>7

-----------------------------------------------------------------------------
\* The connections whose send failed.
LEMMA FailedAre ==
  ASSUME ChatInv, NEW c \in Conns, UNCHANGED broken
  PROVE  /\ \A e \in h[c].cast.failed : broken'[e] = TRUE
         /\ c \in h[c].cast.failed => broken'[c] = TRUE
BY KnownCast

LEMMA EndAnnounceOK == ASSUME ChatInv, NEW c \in Conns, EndAnnounce(c) PROVE ChatInv'
<1>1. PICK q \in Handlers : q = h[c] /\ ConnOK(q, user_roles[c], broken[c])
  BY Known
<1>2. PICK none \in Broadcasts : none = NoBroadcast /\ Fresh(none)
  BY NoBroadcastIs
<1>3. PICK r : r = [q EXCEPT !.pc = "process", !.cast = none]
  OBVIOUS
<1>4. h' = [h EXCEPT ![c] = r]
  BY <1>1, <1>2, <1>3 DEF EndAnnounce
<1>5. r \in Handlers /\ r.pc = "process" /\ r.given = q.given /\ r.role = q.role /\ r.cast = none
  BY <1>3 DEF Handlers, PCs
<1>6. Breaking /\ Turning /\ UNCHANGED <<link, broken, taken>>
  BY SameBroken, TurnsTurn DEF EndAnnounce
<1> DEFINE S == h[c].cast.failed
<1>7. Disconnect(S) /\ (\A d \in S : broken'[d] = TRUE) /\ (c \in S => broken'[c] = TRUE)
  BY <1>6, FailedAre DEF EndAnnounce, Cleanup
<1> HIDE DEF S
<1>8. ConnOK(r, IF c \in S THEN None ELSE user_roles[c], broken'[c])
  BY <1>1, <1>5, <1>6, <1>7 DEF ConnOK, Gone, EndAnnounce, At
<1> QED
  BY <1>2, <1>4, <1>5, <1>6, <1>7, <1>8, DroppingStep

\* EndDeclare and EndNotice.
LEMMA EndsOK ==
  ASSUME ChatInv, NEW c \in Conns, NEW pc \in {"leave", "receive", "done"},
         Settle(c, pc), Cleanup(c), Turning, UNCHANGED <<link, broken, taken>>,
         pc = "leave" => broken[c] /\ h[c].pc = "declare",
         pc = "receive" => h[c].pc = "declare",
         pc = "done" => h[c].pc = "notice"
  PROVE  ChatInv'
<1>1. PICK q \in Handlers : q = h[c] /\ ConnOK(q, user_roles[c], broken[c])
  BY Known
<1>2. PICK r \in Handlers : /\ h' = [h EXCEPT ![c] = r] /\ r.pc = pc
                            /\ r.given = h[c].given /\ Fresh(r.cast)
  BY SettlesIs DEF PCs
<1> DEFINE S == h[c].cast.failed
<1>3. Disconnect(S) /\ (\A d \in S : broken'[d] = TRUE) /\ (c \in S => broken'[c] = TRUE)
  BY FailedAre DEF Cleanup
<1> HIDE DEF S
<1>4. ConnOK(r, IF c \in S THEN None ELSE user_roles[c], broken'[c])
  BY <1>1, <1>2, <1>3 DEF ConnOK, Gone
<1> QED
  BY <1>2, <1>3, <1>4, SameBroken, DroppingStep

LEMMA EndDeclareOK == ASSUME ChatInv, NEW c \in Conns, EndDeclare(c) PROVE ChatInv'
<1>1. Turning /\ Cleanup(c) /\ UNCHANGED <<link, broken, taken>> /\ h[c].pc = "declare"
  BY TurnsTurn DEF EndDeclare, At
<1>2. CASE broken[c]
  BY <1>1, <1>2, EndsOK DEF EndDeclare
<1>3. CASE ~broken[c]
  BY <1>1, <1>3, EndsOK DEF EndDeclare
<1> QED
  BY <1>2, <1>3

LEMMA EndNoticeOK == ASSUME ChatInv, NEW c \in Conns, EndNotice(c) PROVE ChatInv'
BY TurnsTurn, EndsOK DEF EndNotice, At

-----------------------------------------------------------------------------
\* The only step in which the list grows: by a connection nobody knew.
LEMMA ConnectOK == ASSUME ChatInv, NEW c \in Conns, NEW role \in Roles, Connect(c, role) PROVE ChatInv'
<1>1. PICK list \in Seq(Conns) :
        list = active_connections /\ Distinct(list) /\ \A i \in DOMAIN list : h[list[i]].pc # "new"
  BY KnownCast
<1>2. PICK m \in Nat : m = Len(list) /\ DOMAIN list = 1..m
  BY <1>1
<1>3. PICK list2 \in Seq(Conns) : list2 = Append(list, c)
  <2>1. Append(list, c) \in Seq(Conns)
    OBVIOUS
  <2> QED
    BY <2>1
<1>4. DOMAIN list2 = 1..(m + 1) /\ list2[m + 1] = c /\ \A i \in 1..m : list2[i] = list[i]
  BY <1>1, <1>2, <1>3
<1>5. active_connections' = list2 /\ user_roles' = [user_roles EXCEPT ![c] = role]
  BY <1>1, <1>3 DEF Connect
<1>6. h[c].pc = "new" /\ \A i \in 1..m : list[i] # c
  BY <1>1, <1>2 DEF Connect, At
<1>7. PICK q \in Handlers : q = h[c] /\ ConnOK(q, user_roles[c], broken[c])
  BY Known
<1>8. PICK r : r = [q EXCEPT !.pc = "welcome", !.given = role]
  OBVIOUS
<1>9. h' = [h EXCEPT ![c] = r]
  BY <1>7, <1>8 DEF Connect
<1>10. r \in Handlers /\ r.pc = "welcome" /\ r.given = role /\ r.cast = q.cast
  BY <1>8 DEF Handlers, PCs
<1>11. UNCHANGED <<link, broken, taken>> /\ Turning
  BY TurnsTurn DEF Connect
<1>12. h \in [Conns -> Handlers] /\ user_roles \in [Conns -> Roles \cup {None}]
  BY DEF ChatInv, TypeOK, Handlers
<1>13. h' \in [Conns -> Handlers] /\ user_roles' \in [Conns -> Roles \cup {None}]
       /\ \A d \in Conns : /\ h'[d] = IF d = c THEN r ELSE h[d]
                           /\ user_roles'[d] = IF d = c THEN role ELSE user_roles[d]
  BY <1>5, <1>9, <1>10, <1>12
<1>14. TypeOK'
  BY <1>3, <1>5, <1>11, <1>13 DEF ChatInv, TypeOK, Handlers, Turning
<1>15. ListOK'
  <2>1. Distinct(list2)
    BY <1>1, <1>2, <1>4, <1>6 DEF Distinct
  <2>2. \A d \in Conns : Listed(d)' <=> d = c \/ Listed(d)
    <3>1. \A d \in Conns : Listed(d)' <=> \E i \in 1..(m + 1) : list2[i] = d
      BY <1>4, <1>5 DEF Listed
    <3>2. \A d \in Conns : Listed(d) <=> \E i \in 1..m : list[i] = d
      BY <1>1, <1>2 DEF Listed
    <3> QED
      BY <3>1, <3>2, <1>4
  <2>3. role # None
    BY NoneAssumption
  <2> QED
    BY <1>5, <1>13, <2>1, <2>2, <2>3 DEF ChatInv, ListOK
<1>16. ASSUME NEW d \in Conns
       PROVE  /\ ConnOK(h'[d], user_roles'[d], broken'[d])
              /\ CastOK(h'[d].cast, active_connections')
              /\ \A e \in h'[d].cast.failed : broken'[e] = TRUE
              /\ \A e \in Conns : h'[e].pc = "new" => e \notin h'[d].cast.seen /\ e # h'[d].cast.target
  <2>1. PICK k \in Broadcasts : k = h[d].cast /\ k = h'[d].cast
    <3>1. h'[d].cast = h[d].cast
      BY <1>7, <1>10, <1>13
    <3> QED
      BY <3>1, KnownCast
  <2>2. /\ CastOK(k, list) /\ \A e \in k.failed : broken[e] = TRUE
        /\ \A e \in Conns : h[e].pc = "new" => e \notin k.seen /\ e # k.target
    BY <1>1, <2>1, KnownCast
  <2>3. \A e \in Conns : h'[e].pc = "new" => h[e].pc = "new"
    BY <1>10, <1>13
  <2>4. CastOK(k, list2)
    BY <1>2, <1>4, <1>6, <2>2 DEF CastOK
  <2>5. ConnOK(h'[d], user_roles'[d], broken'[d])
    <3>1. CASE d = c
      <4>1. user_roles'[d] = role /\ h'[d] = r /\ role # None
        BY <1>13, <3>1, NoneAssumption
      <4>2. Fresh(r.cast)
        BY <1>6, <1>7, <1>10 DEF ConnOK
      <4> QED
        BY <1>10, <4>1, <4>2 DEF ConnOK, Gone
    <3>2. CASE d # c
      <4>1. h'[d] = h[d] /\ user_roles'[d] = user_roles[d] /\ broken'[d] = broken[d]
        BY <1>11, <1>13, <3>2
      <4> QED
        BY <4>1, Known
    <3> QED
      BY <3>1, <3>2
  <2> QED
    BY <1>5, <1>11, <2>1, <2>2, <2>3, <2>4, <2>5
<1> QED
  BY <1>14, <1>15, <1>16 DEF ChatInv, HandlersOK

-----------------------------------------------------------------------------
LEMMA StutterKeepsInv == ASSUME ChatInv, UNCHANGED vars PROVE ChatInv'
BY DEF ChatInv, TypeOK, ListOK, Listed, HandlersOK, vars, manager

LEMMA NextKeepsInv == ASSUME ChatInv, [Next]_vars PROVE ChatInv'
<1>1. CASE UNCHANGED vars
  BY <1>1, StutterKeepsInv
<1>2. ASSUME NEW c \in Conns, Step(c) PROVE ChatInv'
  <2>1. ASSUME GreetFails(c) PROVE ChatInv'
    <3>1. Breaking /\ LeaveLoudly(c) /\ UNCHANGED <<link, taken>>
      BY <2>1, NewlyBroken DEF GreetFails
    <3> QED
      BY <3>1, LeaveLoudlyOK
  <2>2. ASSUME Hangup(c) PROVE ChatInv'
    <3>1. Breaking /\ LeaveLoudly(c) /\ UNCHANGED <<link, taken>>
      BY <2>2, SameBroken DEF Hangup
    <3> QED
      BY <3>1, LeaveLoudlyOK
  <2> QED
    BY <1>2, <2>1, <2>2, GreetOK, GreetBrokenOK, LeaveOK, EchoOK, ProcessOK, RespondOK,
       ReplyFailsOK, PickOK, DeliverOK, EndAnnounceOK, EndDeclareOK, EndNoticeOK DEF Step
<1> QED
  BY <1>1, <1>2, CloseOK, ConnectOK, ReceiveOK, ReceiveBytesOK DEF Next

THEOREM ChatInvHolds == Spec => []ChatInv
BY InitInv, NextKeepsInv, PTL DEF Spec

(***************************************************************************)
(* The variables of the manager and of the coroutines of                   *)
(* websocket_endpoint keep their types.                                    *)
(***************************************************************************)
THEOREM ChatTypeOK == Spec => []TypeOK
BY ChatInvHolds, PTL DEF ChatInv

\* ListOK is RosterAgrees, part by part.
LEMMA InvRoster == ChatInv => RosterAgrees
BY DEF ChatInv, ListOK, Distinct, RosterAgrees

LEMMA InvNoGhost == ChatInv => NoGhost
<1> SUFFICES ASSUME ChatInv, NEW c \in Conns, At(c, "done") PROVE ~Listed(c)
  BY DEF NoGhost
<1>1. user_roles[c] = None
  BY Known DEF ConnOK, Gone, At
<1> QED
  BY <1>1 DEF ChatInv, ListOK

LEMMA InvRoleKept == ChatInv => RoleKept
BY Known DEF ConnOK, RoleKept, At

\* While others come and go, a broadcast comes to no connection twice.
SentOnce == \A c \in Conns : h[c].cast.target \notin h[c].cast.seen

LEMMA InvSentOnce == ChatInv => SentOnce
BY KnownCast DEF CastOK, SentOnce

(***************************************************************************)
(* The list and the dictionary of ConnectionManager name the same          *)
(* connections, each once, however connect, disconnect and the clean-up of *)
(* broadcasts interleave.                                                  *)
(***************************************************************************)
THEOREM ChatRosterAgrees == Spec => []RosterAgrees
BY ChatInvHolds, InvRoster, PTL

(***************************************************************************)
(* websocket_endpoint never returns with its connection still listed.      *)
(***************************************************************************)
THEOREM ChatNoGhost == Spec => []NoGhost
BY ChatInvHolds, InvNoGhost, PTL

(***************************************************************************)
(* A command is executed and answered with the role that its connection    *)
(* was opened with, although a broadcast may drop the connection from      *)
(* user_roles before the command is read.                                  *)
(***************************************************************************)
THEOREM ChatRoleKept == Spec => []RoleKept
BY ChatInvHolds, InvRoleKept, PTL

(***************************************************************************)
(* The loop of broadcast, over a list that others change while it waits,   *)
(* never sends twice to a connection.                                      *)
(***************************************************************************)
THEOREM ChatSentOnce == Spec => []SentOnce
BY ChatInvHolds, InvSentOnce, PTL
-----------------------------------------------------------------------------
(***************************************************************************)
(* How many connections a broadcast may step over.  Y are those it has     *)
(* come to, perhaps with the one it leaves out: the iterator has advanced  *)
(* once for each of them, and none of them is before it any more.          *)
(***************************************************************************)
Counts(Y, cast, x, list) ==
  /\ (cast.seen \cup {cast.target}) \ {None} \subseteq Y
  /\ Y \subseteq (cast.seen \cup {cast.target, x}) \ {None}
  /\ IsFiniteSet(Y) /\ Cardinality(Y) = cast.idx - 1
  /\ \A i \in DOMAIN list : i >= cast.idx => list[i] \notin Y

CountOK(c) ==
  Broadcasting(c) => \E Y : Counts(Y, h[c].cast, Excluded(c), active_connections)

CountInv == \A c \in Conns : CountOK(c)

\* A list has no more connections before a position than positions.
LEMMA Counting ==
  ASSUME NEW C, NEW list \in Seq(C), NEW idx \in Nat \ {0},
         NEW Y, IsFiniteSet(Y), Cardinality(Y) = idx - 1,
         \A i \in DOMAIN list : i >= idx => list[i] \notin Y,
         NEW P, P = {list[i] : i \in {j \in DOMAIN list : j < idx}}
  PROVE  /\ IsFiniteSet(P)
         /\ Cardinality(P \ Y) <= Cardinality({d \in Y : ~\E i \in DOMAIN list : list[i] = d})
<1> DEFINE D == {j \in DOMAIN list : j < idx}
           f == [i \in D |-> list[i]]
<1>1. D \subseteq 1..(idx - 1) /\ idx - 1 \in Nat
  OBVIOUS
<1>2. IsFiniteSet(1..(idx - 1)) /\ Cardinality(1..(idx - 1)) = idx - 1
  <2>1. PICK n \in Nat : n = idx - 1
    BY <1>1
  <2>2. IsFiniteSet(1..n) /\ Cardinality(1..n) = IF 1 > n THEN 0 ELSE n - 1 + 1
    BY FS_Interval
  <2> QED
    BY <2>1, <2>2
<1>3. IsFiniteSet(D) /\ Cardinality(D) <= idx - 1
  BY <1>1, <1>2, FS_Subset
<1>4. f \in Surjection(D, P)
  BY DEF Surjection
<1>5. IsFiniteSet(P) /\ Cardinality(P) <= Cardinality(D)
  <2> HIDE DEF f, D
  <2> QED
    BY <1>3, <1>4, FS_Surjection
<1> HIDE DEF f, D
<1>6. /\ Cardinality(P) \in Nat /\ Cardinality(D) \in Nat /\ Cardinality(Y) \in Nat
      /\ Cardinality(P \cap Y) \in Nat
  <2>1. IsFiniteSet(P \cap Y)
    BY <1>5, FS_Intersection
  <2> QED
    BY <1>3, <1>5, <2>1, FS_CardinalityType
<1>7. Cardinality(P \ Y) = Cardinality(P) - Cardinality(P \cap Y)
  BY <1>5, FS_Difference
<1>8. Cardinality(Y \ P) = Cardinality(Y) - Cardinality(P \cap Y)
  <2>1. Y \cap P = P \cap Y
    OBVIOUS
  <2> QED
    BY <2>1, FS_Difference
<1>9. Y \ P = {d \in Y : ~\E i \in DOMAIN list : list[i] = d}
  <2>1. ASSUME NEW d \in Y PROVE d \in P <=> \E i \in DOMAIN list : list[i] = d
    <3>1. ASSUME NEW i \in DOMAIN list, list[i] = d PROVE i < idx
      BY <3>1
    <3> QED
      BY <3>1
  <2> QED
    BY <2>1
<1>10. Cardinality(P \ Y) <= Cardinality(Y \ P)
  BY <1>3, <1>5, <1>6, <1>7, <1>8
<1> QED
  BY <1>5, <1>9, <1>10

LEMMA CountBounds ==
  ASSUME ChatInv, NEW c \in Conns, Broadcasting(c), CountOK(c)
  PROVE  Cardinality(Skipped(c)) <= Cardinality(Left(c))
<1>1. PICK cast \in Broadcasts : cast = h[c].cast
  BY KnownCast
<1>2. PICK list \in Seq(Conns) : list = active_connections
  BY KnownCast
<1>3. PICK Y : Counts(Y, cast, Excluded(c), list)
  BY <1>1, <1>2 DEF CountOK
<1>4. cast.idx \in Nat \ {0}
  BY DEF Broadcasts
<1>5. PICK P : P = {list[i] : i \in {j \in DOMAIN list : j < cast.idx}}
  OBVIOUS
<1> DEFINE L == {d \in Y : ~\E i \in DOMAIN list : list[i] = d}
<1>6. IsFiniteSet(P) /\ Cardinality(P \ Y) <= Cardinality(L)
  BY <1>3, <1>4, <1>5, Counting DEF Counts
<1>7. Y \subseteq Met(c) /\ Met(c) \subseteq Y \cup {Excluded(c)}
  BY <1>1, <1>3 DEF Counts, Met
<1>8. IsFiniteSet(Y) /\ IsFiniteSet(Y \cup {Excluded(c)})
  BY <1>3, FS_AddElement DEF Counts
<1>9. IsFiniteSet(Met(c))
  BY <1>7, <1>8, FS_Subset
<1>10. Skipped(c) \subseteq P \ Y
  BY <1>1, <1>2, <1>5, <1>7 DEF Skipped, Passed
<1>11. L \subseteq Left(c)
  BY <1>2, <1>7 DEF Left, Listed
<1>12. Left(c) \subseteq Met(c)
  BY DEF Left
<1> HIDE DEF L
<1>13. IsFiniteSet(P \ Y) /\ IsFiniteSet(Left(c))
  BY <1>6, <1>9, <1>12, FS_Subset
<1>14. Cardinality(Skipped(c)) <= Cardinality(P \ Y) /\ Cardinality(L) <= Cardinality(Left(c))
  BY <1>10, <1>11, <1>13, FS_Subset
<1>15. IsFiniteSet(Skipped(c)) /\ IsFiniteSet(L)
  BY <1>10, <1>11, <1>13, FS_Subset
<1>16. /\ Cardinality(Skipped(c)) \in Nat /\ Cardinality(P \ Y) \in Nat
       /\ Cardinality(L) \in Nat /\ Cardinality(Left(c)) \in Nat
  BY <1>13, <1>15, FS_CardinalityType
<1> QED
  BY <1>6, <1>14, <1>16

\* The list in the next state: what was there, not further back than it was, and
\* a connection that is new.
ListMoves ==
  \A j \in DOMAIN active_connections' :
    \/ \E i \in DOMAIN active_connections : i >= j /\ active_connections'[j] = active_connections[i]
    \/ \E e \in Conns : active_connections'[j] = e /\ h[e].pc = "new"

LEMMA SameListMoves == ASSUME ChatInv, UNCHANGED active_connections PROVE ListMoves
<1>1. DOMAIN active_connections \subseteq Nat
  BY DEF ChatInv, TypeOK
<1> QED
  BY <1>1 DEF ListMoves

LEMMA DisconnectMoves == ASSUME ChatInv, NEW S, Disconnect(S) PROVE ListMoves
BY DisconnectShrinks DEF Shrinks, ListMoves

LEMMA ConnectMoves ==
  ASSUME ChatInv, NEW c \in Conns, NEW role \in Roles, Connect(c, role) PROVE ListMoves
<1>1. PICK list \in Seq(Conns) : list = active_connections
  BY KnownCast
<1>2. active_connections' = Append(list, c) /\ h[c].pc = "new"
  BY <1>1 DEF Connect, At
<1>3. PICK m \in Nat : m = Len(list) /\ DOMAIN list = 1..m
  BY <1>1
<1>4. DOMAIN active_connections' = 1..(m + 1) /\ active_connections'[m + 1] = c
      /\ \A i \in 1..m : active_connections'[i] = list[i]
  BY <1>2, <1>3
<1> SUFFICES ASSUME NEW j \in 1..(m + 1)
             PROVE  \/ \E i \in 1..m : i >= j /\ active_connections'[j] = list[i]
                    \/ active_connections'[j] = c
  BY <1>1, <1>2, <1>3, <1>4 DEF ListMoves
<1> QED
  BY <1>3, <1>4

\* Of the steps of a coroutine only those of the loop itself move a broadcast that
\* is under way.
Renews(c) ==
  \E r : /\ h' = [h EXCEPT ![c] = r]
         /\ r.pc \in {"announce", "declare", "notice"} => Fresh(r.cast)

LEMMA SettleRenews == ASSUME ChatInv, NEW c \in Conns, NEW pc \in PCs, Settle(c, pc) PROVE Renews(c)
BY SettlesIs DEF Renews

LEMMA GotoRenews ==
  ASSUME ChatInv, NEW c \in Conns, NEW pc \in PCs \ {"announce", "declare", "notice"}, Goto(c, pc)
  PROVE  Renews(c)
BY GotoIs DEF Renews

LEMMA LoudlyRenews == ASSUME ChatInv, NEW c \in Conns, LeaveLoudly(c) PROVE Renews(c)
<1>1. h[c] \in Handlers /\ Disconnect({c})
  BY Known DEF LeaveLoudly
<1>2. active_connections' \in Seq(Conns)
  BY <1>1, DisconnectShrinks DEF Shrinks
<1>3. PICK cast \in Broadcasts : Fresh(cast) /\ cast = Casting(active_connections', None)
  BY <1>2, CastingIs
<1>4. PICK r : r = [h[c] EXCEPT !.pc = "notice", !.cast = cast]
  OBVIOUS
<1>5. h' = [h EXCEPT ![c] = r]
  BY <1>3, <1>4 DEF LeaveLoudly
<1>6. r.cast = cast
  BY <1>1, <1>4 DEF Handlers
<1> QED
  BY <1>3, <1>5, <1>6 DEF Renews

LEMMA StepRenews ==
  ASSUME ChatInv, NEW c \in Conns, Step(c), ~Pick(c), ~Deliver(c)
  PROVE  Renews(c) /\ ListMoves
<1>1. CASE Greet(c)
  <2>1. PICK pc \in {"info", "receive"} : Goto(c, pc)
    BY <1>1 DEF Greet
  <2>2. pc \in PCs \ {"announce", "declare", "notice"}
    BY DEF PCs
  <2> QED
    BY <1>1, <2>1, <2>2, GotoRenews, SameListMoves DEF Greet, manager
<1>2. CASE GreetFails(c) \/ Hangup(c)
  BY <1>2, LoudlyRenews, DisconnectMoves DEF GreetFails, Hangup, LeaveLoudly
<1>3. CASE GreetBroken(c)
  BY <1>3, GotoRenews, SameListMoves DEF GreetBroken, manager, PCs
<1>4. CASE Leave(c)
  BY <1>4, GotoRenews, DisconnectMoves DEF Leave, PCs
<1>5. CASE Echo(c)
  <2>1. CASE Quiet(h[c].cmd)
    BY <1>5, <2>1, GotoRenews, SameListMoves DEF Echo, manager, PCs
  <2>2. CASE ~Quiet(h[c].cmd)
    BY <1>5, <2>2, CastIs, SameListMoves DEF Echo, manager, PCs, Renews
  <2> QED
    BY <2>1, <2>2
<1>6. CASE Process(c)
  BY <1>6, GotoRenews, SameListMoves DEF Process, manager, PCs
<1>7. CASE Respond(c)
  <2>1. CASE Public(h[c].cmd)
    BY <1>7, <2>1, CastIs, SameListMoves DEF Respond, manager, PCs, Renews
  <2>2. CASE ~Public(h[c].cmd)
    BY <1>7, <2>2, SettleRenews, SameListMoves DEF Respond, manager, PCs
  <2> QED
    BY <2>1, <2>2
<1>8. CASE ReplyFails(c)
  BY <1>8, SettleRenews, SameListMoves DEF ReplyFails, manager, PCs
<1>9. CASE EndAnnounce(c)
  <2>1. PICK q \in Handlers : q = h[c]
    BY Known
  <2>2. PICK r : r = [q EXCEPT !.pc = "process", !.cast = NoBroadcast]
    OBVIOUS
  <2>3. h' = [h EXCEPT ![c] = r] /\ r.pc = "process"
    BY <1>9, <2>1, <2>2 DEF EndAnnounce, Handlers
  <2> QED
    BY <1>9, <2>3, DisconnectMoves DEF EndAnnounce, Cleanup, Renews
<1>10. CASE EndDeclare(c)
  <2>1. PICK pc \in {"leave", "receive"} : Settle(c, pc)
    BY <1>10 DEF EndDeclare
  <2> QED
    BY <1>10, <2>1, SettleRenews, DisconnectMoves DEF EndDeclare, Cleanup, PCs
<1>11. CASE EndNotice(c)
  BY <1>11, SettleRenews, DisconnectMoves DEF EndNotice, Cleanup, PCs
<1> QED
  BY <1>1, <1>2, <1>3, <1>4, <1>5, <1>6, <1>7, <1>8, <1>9, <1>10, <1>11 DEF Step

\* A broadcast that nobody advances: what is still before the iterator was before
\* it, or is new and unknown to it.
LEMMA SameCastCounts ==
  ASSUME ChatInv, NEW d \in Conns, CountOK(d), h'[d] = h[d],
         active_connections' \in Seq(Conns), ListMoves
  PROVE  CountOK(d)'
<1> SUFFICES ASSUME Broadcasting(d)
             PROVE  \E Y : Counts(Y, h[d].cast, Excluded(d), active_connections')
  BY DEF CountOK, Broadcasting, Excluded, At
<1>1. PICK cast \in Broadcasts : cast = h[d].cast
  BY KnownCast
<1>2. PICK Y : Counts(Y, cast, Excluded(d), active_connections)
  BY <1>1 DEF CountOK
<1>3. \A e \in Conns : h[e].pc = "new" => e \notin Y
  <2>1. \A e \in Conns : h[e].pc = "new" => e \notin cast.seen /\ e # cast.target
    BY <1>1, KnownCast
  <2>2. Excluded(d) \in {None, d} /\ h[d].pc # "new"
    BY DEF Excluded, Broadcasting
  <2> QED
    BY <1>2, <2>1, <2>2 DEF Counts
<1>4. \A j \in DOMAIN active_connections' : j >= cast.idx => active_connections'[j] \notin Y
  <2> SUFFICES ASSUME NEW j \in DOMAIN active_connections', j >= cast.idx,
                      NEW i \in DOMAIN active_connections, i >= j,
                      active_connections'[j] = active_connections[i]
               PROVE  active_connections[i] \notin Y
    BY <1>3 DEF ListMoves
  <2>1. i \in Nat /\ j \in Nat /\ cast.idx \in Nat
    BY DEF ChatInv, TypeOK, Broadcasts
  <2>2. i >= cast.idx
    BY <2>1
  <2> QED
    BY <1>2, <2>2 DEF Counts
<1> QED
  BY <1>1, <1>2, <1>4 DEF Counts

\* The coroutine of c goes on with its broadcast, which is k from now on.
LEMMA GoesOn ==
  ASSUME ChatInv, NEW c \in Conns, NEW k \in Broadcasts, h' = [h EXCEPT ![c].cast = k],
         UNCHANGED active_connections,
         NEW Y, Counts(Y, k, Excluded(c), active_connections)
  PROVE  CountOK(c)'
<1>1. PICK q \in Handlers : q = h[c]
  BY Known
<1>2. PICK r \in Handlers : r = [q EXCEPT !.cast = k]
  BY <1>1 DEF Handlers
<1>3. h' = [h EXCEPT ![c] = r] /\ h \in [Conns -> Handlers]
  BY <1>1, <1>2 DEF ChatInv, TypeOK, Handlers
<1>4. h'[c] = r /\ r.pc = h[c].pc /\ r.cast = k
  BY <1>1, <1>2, <1>3 DEF Handlers
<1>5. Excluded(c)' = Excluded(c)
  BY <1>4 DEF Excluded, At
<1> QED
  BY <1>4, <1>5 DEF CountOK

\* Each connection that the iterator yields counts for one position.
LEMMA PickCounts == ASSUME ChatInv, NEW c \in Conns, CountOK(c), Pick(c) PROVE CountOK(c)'
<1>1. PICK list \in Seq(Conns) : list = active_connections /\ Distinct(list)
  BY KnownCast
<1>2. PICK q \in Broadcasts : q = h[c].cast
  BY KnownCast
<1>3. PICK Y : Counts(Y, q, Excluded(c), list)
  BY <1>1, <1>2 DEF Pick, CountOK
<1>4. /\ q.idx \in Nat \ {0} /\ q.idx \in DOMAIN list /\ DOMAIN list \subseteq Nat
      /\ q.target = None /\ UNCHANGED active_connections
  BY <1>1, <1>2 DEF Pick, Broadcasts, manager
<1>5. PICK next \in Conns : next = list[q.idx]
  BY <1>4
<1> DEFINE Z == Y \cup {next}
<1>6. IsFiniteSet(Z) /\ Cardinality(Z) = q.idx
  <2>1. next \notin Y
    BY <1>3, <1>4, <1>5 DEF Counts
  <2>2. IsFiniteSet(Z) /\ Cardinality(Z) = Cardinality(Y) + 1
    BY <1>3, <2>1, FS_AddElement DEF Counts
  <2> QED
    BY <1>3, <1>4, <2>2 DEF Counts
<1>7. \A i \in DOMAIN list : i >= q.idx + 1 => list[i] \notin Z
  BY <1>1, <1>3, <1>4, <1>5 DEF Counts, Distinct
<1>8. next # None
  BY NoneAssumption
<1>9. CASE next = Excluded(c)
  <2>1. PICK k : k = [q EXCEPT !.idx = q.idx + 1]
    OBVIOUS
  <2>2. h' = [h EXCEPT ![c].cast = k]
    BY <1>1, <1>2, <1>5, <1>9, <2>1 DEF Pick
  <2>3. k \in Broadcasts /\ k.idx = q.idx + 1 /\ k.target = None /\ k.seen = q.seen
    BY <1>4, <2>1 DEF Broadcasts
  <2>4. Counts(Z, k, Excluded(c), list)
    BY <1>3, <1>4, <1>6, <1>7, <1>8, <1>9, <2>3 DEF Counts
  <2> QED
    BY <1>1, <1>4, <2>2, <2>3, <2>4, GoesOn
<1>10. CASE next # Excluded(c)
  <2>1. PICK k : k = [q EXCEPT !.idx = q.idx + 1, !.target = next]
    OBVIOUS
  <2>2. h' = [h EXCEPT ![c].cast = k]
    BY <1>1, <1>2, <1>5, <1>10, <2>1 DEF Pick
  <2>3. k \in Broadcasts /\ k.idx = q.idx + 1 /\ k.target = next /\ k.seen = q.seen
    <3>1. PICK n \in Nat \ {0} : n = q.idx + 1
      BY <1>4
    <3>2. k = [q EXCEPT !.idx = n, !.target = next]
      BY <2>1, <3>1
    <3> QED
      BY <3>1, <3>2 DEF Broadcasts
  <2>4. Counts(Z, k, Excluded(c), list)
    BY <1>3, <1>4, <1>6, <1>7, <1>8, <2>3 DEF Counts
  <2> QED
    BY <1>1, <1>4, <2>2, <2>3, <2>4, GoesOn
<1> QED
  BY <1>9, <1>10

LEMMA DeliverCounts == ASSUME ChatInv, NEW c \in Conns, CountOK(c), Deliver(c) PROVE CountOK(c)'
<1>1. PICK list \in Seq(Conns) : list = active_connections
  BY KnownCast
<1>2. PICK q \in Broadcasts : q = h[c].cast
  BY KnownCast
<1>3. PICK Y : Counts(Y, q, Excluded(c), list)
  BY <1>1, <1>2 DEF Deliver, CountOK
<1>4. PICK t \in Conns : t = q.target
  BY <1>2 DEF Deliver, Broadcasts
<1>5. UNCHANGED active_connections /\ t # None
  BY NoneAssumption DEF Deliver, manager
<1>6. ASSUME NEW k \in Broadcasts, k.idx = q.idx, k.target = None, k.seen = q.seen \cup {t}
      PROVE  Counts(Y, k, Excluded(c), list)
  BY <1>3, <1>4, <1>6 DEF Counts
<1>7. CASE Sendable(t)
  <2>1. PICK k : k = [q EXCEPT !.target = None, !.seen = q.seen \cup {t}]
    OBVIOUS
  <2>2. h' = [h EXCEPT ![c].cast = k]
    BY <1>2, <1>4, <1>7, <2>1 DEF Deliver
  <2>3. k \in Broadcasts /\ k.idx = q.idx /\ k.target = None /\ k.seen = q.seen \cup {t}
    BY <2>1 DEF Broadcasts
  <2> QED
    BY <1>1, <1>5, <1>6, <2>2, <2>3, GoesOn
<1>8. CASE ~Sendable(t)
  <2>1. PICK k : k = [q EXCEPT !.target = None, !.seen = q.seen \cup {t}, !.failed = q.failed \cup {t}]
    OBVIOUS
  <2>2. h' = [h EXCEPT ![c].cast = k]
    BY <1>2, <1>4, <1>8, <2>1 DEF Deliver
  <2>3. k \in Broadcasts /\ k.idx = q.idx /\ k.target = None /\ k.seen = q.seen \cup {t}
    BY <2>1 DEF Broadcasts
  <2> QED
    BY <1>1, <1>5, <1>6, <2>2, <2>3, GoesOn
<1> QED
  BY <1>7, <1>8

\* A step of c that gives up its broadcast, or begins one, leaves the others alone.
LEMMA RenewsCounts ==
  ASSUME ChatInv, CountInv, ChatInv', NEW c \in Conns, Renews(c), ListMoves
  PROVE  CountInv'
<1> SUFFICES ASSUME NEW d \in Conns PROVE CountOK(d)'
  BY DEF CountInv
<1>1. active_connections' \in Seq(Conns)
  BY DEF ChatInv, TypeOK
<1>2. PICK r : /\ h' = [h EXCEPT ![c] = r]
               /\ r.pc \in {"announce", "declare", "notice"} => Fresh(r.cast)
  BY DEF Renews
<1>3. h'[d] = IF d = c THEN r ELSE h[d]
  BY <1>2 DEF ChatInv, TypeOK
<1>4. CASE d = c
  <2> SUFFICES ASSUME Broadcasting(d)' PROVE CountOK(d)'
    BY DEF CountOK
  <2>1. Fresh(h'[d].cast)
    BY <1>2, <1>3, <1>4 DEF Broadcasting
  <2>2. Counts({}, h'[d].cast, Excluded(d)', active_connections')
    BY <2>1, FS_EmptySet DEF Fresh, Counts
  <2> QED
    BY <2>2 DEF CountOK
<1>5. CASE d # c
  BY <1>1, <1>3, <1>5, SameCastCounts DEF CountInv
<1> QED
  BY <1>4, <1>5

LEMMA LoopCounts ==
  ASSUME ChatInv, CountInv, NEW c \in Conns, Pick(c) \/ Deliver(c)
  PROVE  CountInv'
<1> SUFFICES ASSUME NEW d \in Conns PROVE CountOK(d)'
  BY DEF CountInv
<1>1. UNCHANGED active_connections /\ \A e \in Conns : e # c => h'[e] = h[e]
  BY DEF Pick, Deliver, manager, ChatInv, TypeOK
<1>2. ListMoves /\ active_connections' \in Seq(Conns)
  BY <1>1, SameListMoves DEF ChatInv, TypeOK
<1>3. CASE d = c
  BY <1>3, PickCounts, DeliverCounts DEF CountInv
<1>4. CASE d # c
  BY <1>1, <1>2, <1>4, SameCastCounts DEF CountInv
<1> QED
  BY <1>3, <1>4

LEMMA NextKeepsCount == ASSUME ChatInv, CountInv, [Next]_vars, ChatInv' PROVE CountInv'
<1>1. ASSUME UNCHANGED <<active_connections, h>> PROVE CountInv'
  BY <1>1 DEF CountInv, CountOK, Broadcasting, Excluded, At
<1>2. CASE UNCHANGED vars
  BY <1>1, <1>2 DEF vars, manager
<1>3. ASSUME NEW c \in Conns, Close(c) PROVE CountInv'
  BY <1>1, <1>3 DEF Close, manager
<1>4. ASSUME NEW c \in Conns, NEW role \in Roles, Connect(c, role) PROVE CountInv'
  <2>1. PICK r : r = [h[c] EXCEPT !.pc = "welcome", !.given = role]
    OBVIOUS
  <2>2. h' = [h EXCEPT ![c] = r] /\ r.pc = "welcome"
    BY <1>4, <2>1, Known DEF Connect, Handlers
  <2>3. Renews(c) /\ ListMoves
    BY <1>4, <2>2, ConnectMoves DEF Renews
  <2> QED
    BY <2>3, RenewsCounts
<1>5. ASSUME NEW c \in Conns, NEW cmd \in Commands, Receive(c, cmd) PROVE CountInv'
  <2>1. PICK r : r = [h[c] EXCEPT !.pc = "echo", !.cmd = cmd, !.role = get_user_role(c)]
    OBVIOUS
  <2>2. h' = [h EXCEPT ![c] = r] /\ r.pc = "echo"
    BY <1>5, <2>1, Known DEF Receive, Handlers
  <2>3. Renews(c) /\ ListMoves
    BY <1>5, <2>2, SameListMoves DEF Renews, Receive, manager
  <2> QED
    BY <2>3, RenewsCounts
<1>6. ASSUME NEW c \in Conns, ReceiveBytes(c) PROVE CountInv'
  <2>1. Renews(c) /\ ListMoves
    BY <1>6, GotoRenews, SameListMoves DEF ReceiveBytes, manager, PCs
  <2> QED
    BY <2>1, RenewsCounts
<1>7. ASSUME NEW c \in Conns, Step(c) PROVE CountInv'
  BY <1>7, LoopCounts, StepRenews, RenewsCounts
<1> QED
  BY <1>2, <1>3, <1>4, <1>5, <1>6, <1>7 DEF Next

LEMMA InitCount == Init => CountInv
BY DEF Init, NewHandler, CountInv, CountOK, Broadcasting

THEOREM CountInvHolds == Spec => []CountInv
BY ChatInvHolds, InitCount, NextKeepsCount, PTL DEF Spec

LEMMA InvMisses == ChatInv /\ CountInv => MissesBounded
BY CountBounds DEF CountInv, MissesBounded

(***************************************************************************)
(* The loop of broadcast steps over at most one connection for each one    *)
(* that it had come to, and that has left the list while it waited.        *)
(***************************************************************************)
THEOREM ChatMissesBounded == Spec => []MissesBounded
BY ChatInvHolds, CountInvHolds, InvMisses, PTL

\* A broadcast that is over, and none of those it came to has left.
Undisturbed(c) == Exhausted(c) /\ Left(c) = {}

ReachesListed ==
  \A c \in Conns : Undisturbed(c) =>
    \A d \in Conns : Listed(d) => d \in h[c].cast.seen \cup {Excluded(c)}

LEMMA InvReaches == ChatInv /\ CountInv => ReachesListed
<1> SUFFICES ASSUME ChatInv, CountInv, NEW c \in Conns, Undisturbed(c),
                    NEW d \in Conns, Listed(d)
             PROVE  d \in h[c].cast.seen \cup {Excluded(c)}
  BY DEF ReachesListed
<1>1. Cardinality(Skipped(c)) <= 0
  BY CountBounds, FS_EmptySet DEF CountInv, Undisturbed, Exhausted
<1>2. IsFiniteSet(Skipped(c))
  <2>1. PICK list \in Seq(Conns) : list = active_connections
    BY KnownCast
  <2>2. PICK m \in Nat : DOMAIN list = 1..m
    BY <2>1
  <2>3. IsFiniteSet(1..m)
    BY <2>2, FS_Interval
  <2> DEFINE R == {list[i] : i \in 1..m}
             f == [i \in 1..m |-> list[i]]
  <2>4. f \in Surjection(1..m, R)
    BY DEF Surjection
  <2>5. IsFiniteSet(R)
    <3> HIDE DEF f, R
    <3> QED
      BY <2>3, <2>4, FS_Surjection
  <2>6. Skipped(c) \subseteq R
    BY <2>1, <2>2 DEF Skipped, Passed
  <2> QED
    BY <2>5, <2>6, FS_Subset
<1>3. Skipped(c) = {}
  BY <1>1, <1>2, FS_CardinalityType, FS_EmptySet
<1>4. PICK i \in DOMAIN active_connections : active_connections[i] = d
  BY DEF Listed
<1>5. i < h[c].cast.idx
  <2>1. PICK list \in Seq(Conns) : list = active_connections
    BY KnownCast
  <2>2. PICK cast \in Broadcasts : cast = h[c].cast
    BY KnownCast
  <2>3. i \in 1..Len(list) /\ Len(list) \in Nat /\ cast.idx \in Nat
    BY <1>4, <2>1 DEF Broadcasts
  <2> QED
    BY <2>1, <2>2, <2>3 DEF Undisturbed, Exhausted
<1>6. d \in Met(c)
  BY <1>3, <1>4, <1>5 DEF Skipped, Passed
<1> QED
  BY <1>6 DEF Met, Undisturbed, Exhausted

(***************************************************************************)
(* What the comment of broadcast promises, under the condition that the    *)
(* code needs for it: a broadcast during which none of the connections it  *)
(* came to left the list has, at its end, come to every connection that is *)
(* listed but the sender, also to those that connected meanwhile.          *)
(***************************************************************************)
THEOREM ChatReachesListed == Spec => []ReachesListed
BY ChatInvHolds, CountInvHolds, InvReaches, PTL

-----------------------------------------------------------------------------
(***************************************************************************)
(* ChatOps implements Room.  Beside ChatInv the mapping needs that a send  *)
(* fails only to a client that has gone away.                              *)
(***************************************************************************)
LinkInv ==
  \A d \in Conns :
    /\ broken[d] = TRUE => link[d] = "closed"
    /\ h[d].pc = "leave" => broken[d] = TRUE
    /\ h[d].cast.failed \subseteq h[d].cast.seen

Casters == {"announce", "declare", "notice"}

\* Whom the message of c has come to, when r is the coroutine of c.
HeardBy(c, r) ==
  IF r.pc \in Casters
  THEN (r.cast.seen \cup {r.cast.target, IF r.pc = "notice" THEN None ELSE c}) \ {None}
  ELSE {}

LEMMA ReachedIs == Reached = [d \in Conns |-> HeardBy(d, h[d])]
<1> SUFFICES ASSUME NEW d \in Conns
             PROVE  (IF Broadcasting(d) THEN Met(d) ELSE {}) = HeardBy(d, h[d])
  BY DEF Reached
<1> QED
  BY DEF HeardBy, Casters, Broadcasting, Met, Excluded, At

\* What the mapping makes of a step of c.
LEMMA Moved ==
  ASSUME ChatInv, NEW c \in Conns, NEW r \in Handlers, h' = [h EXCEPT ![c] = r], r.pc # "new"
  PROVE  /\ Entered' = Entered \cup {c}
         /\ c \in Entered => Entered' = Entered
         /\ r.pc = "garbled" => Unreadable' = Unreadable \cup {c}
         /\ r.pc # "garbled" => Unreadable' = Unreadable \ {c}
         /\ r.pc \in Casters => Speakers' = Speakers \cup {c}
         /\ r.pc \notin Casters => Speakers' = Speakers \ {c}
         /\ (c \in Speakers <=> r.pc \in Casters) => Speakers' = Speakers
         /\ Reached' = [Reached EXCEPT ![c] = HeardBy(c, r)]
<1>1. \A d \in Conns : h'[d] = IF d = c THEN r ELSE h[d]
  BY DEF ChatInv, TypeOK
<1>2. Entered' = Entered \cup {c} /\ (c \in Entered => Entered' = Entered)
  BY <1>1 DEF Entered, At
<1>3. r.pc \in Casters => Speakers' = Speakers \cup {c}
  BY <1>1 DEF Speakers, Broadcasting, Casters
<1>4. r.pc \notin Casters => Speakers' = Speakers \ {c}
  BY <1>1 DEF Speakers, Broadcasting, Casters
<1>5. (c \in Speakers <=> r.pc \in Casters) => Speakers' = Speakers
  BY <1>1 DEF Speakers, Broadcasting, Casters
<1>6. Reached' = [d \in Conns |-> HeardBy(d, h'[d])]
  <2> SUFFICES ASSUME NEW d \in Conns
               PROVE  (IF Broadcasting(d) THEN Met(d) ELSE {})' = HeardBy(d, h'[d])
    BY DEF Reached
  <2> QED
    BY DEF HeardBy, Casters, Broadcasting, Met, Excluded, At
<1>7. Reached' = [Reached EXCEPT ![c] = HeardBy(c, r)]
  BY <1>1, <1>6, ReachedIs
<1>8. /\ r.pc = "garbled" => Unreadable' = Unreadable \cup {c}
      /\ r.pc # "garbled" => Unreadable' = Unreadable \ {c}
  BY <1>1 DEF Unreadable, At
<1> QED
  BY <1>2, <1>3, <1>4, <1>5, <1>7, <1>8

\* A step of c that neither reads bytes nor follows upon having read some.
LEMMA Readable ==
  ASSUME ChatInv, NEW c \in Conns, NEW r \in Handlers, h' = [h EXCEPT ![c] = r], r.pc # "new",
         r.pc # "garbled", h[c].pc # "garbled"
  PROVE  UNCHANGED Unreadable
<1>1. c \notin Unreadable
  BY DEF Unreadable, At
<1>2. Unreadable' = Unreadable \ {c}
  BY Moved
<1> QED
  BY <1>1, <1>2

\* A step that the room does not see.
LEMMA Unseen ==
  ASSUME ChatInv, NEW c \in Conns, NEW r \in Handlers, h' = [h EXCEPT ![c] = r],
         r.pc \notin {"new", "garbled"}, h[c].pc \notin {"new", "garbled"},
         r.pc \in Casters <=> h[c].pc \in Casters,
         HeardBy(c, r) = HeardBy(c, h[c]), UNCHANGED <<user_roles, link>>
  PROVE  UNCHANGED Hall!vars
<1>1. c \in Entered /\ (c \in Speakers <=> r.pc \in Casters)
  BY DEF Entered, Speakers, Broadcasting, Casters, At
<1>2. Reached[c] = HeardBy(c, r) /\ Reached = [Reached EXCEPT ![c] = Reached[c]]
  BY ReachedIs
<1>3. UNCHANGED Entered /\ UNCHANGED Speakers
  BY <1>1, Moved
<1>4. Reached' = [Reached EXCEPT ![c] = Reached[c]]
  <2>1. Reached' = [Reached EXCEPT ![c] = HeardBy(c, r)]
    BY Moved
  <2> QED
    BY <1>2, <2>1
<1>5. UNCHANGED Unreadable
  BY Readable
<1> QED
  BY <1>2, <1>3, <1>4, <1>5 DEF Hall!vars, WentAway

\* A coroutine goes on where it makes no broadcast, before and after.
LEMMA Silently ==
  ASSUME ChatInv, NEW c \in Conns, NEW r \in Handlers, h' = [h EXCEPT ![c] = r],
         r.pc \notin Casters \cup {"new", "garbled"},
         h[c].pc \notin Casters \cup {"new", "garbled"},
         UNCHANGED <<user_roles, link>>
  PROVE  UNCHANGED Hall!vars
BY Unseen DEF HeardBy

LEMMA FreshHeard ==
  ASSUME NEW c \in Conns, NEW r, Fresh(r.cast), r.pc \in Casters
  PROVE  HeardBy(c, r) = IF r.pc = "notice" THEN {} ELSE {c}
BY NoneAssumption DEF HeardBy, Fresh

LEMMA Spoken ==
  ASSUME ChatInv, NEW c \in Conns, NEW r \in Handlers, h' = [h EXCEPT ![c] = r],
         r.pc \in {"announce", "declare"}, Fresh(r.cast),
         h[c].pc \in {"echo", "respond"}, broken[c] = FALSE, UNCHANGED <<user_roles, link>>
  PROVE  Hall!Speak(c)
<1>1. c \in Entered /\ c \notin Speakers
  BY DEF Entered, Speakers, Broadcasting, At
<1>2. user_roles[c] # None
  BY Known DEF ConnOK, Gone
<1>3. /\ Entered' = Entered \cup {c} /\ Speakers' = Speakers \cup {c}
      /\ Reached' = [Reached EXCEPT ![c] = {c}]
  BY Moved, FreshHeard DEF Casters
<1>4. UNCHANGED Unreadable
  BY Readable
<1> QED
  BY <1>1, <1>2, <1>3, <1>4 DEF Hall!Speak, Hall!Begin, Hall!Members, WentAway

-----------------------------------------------------------------------------
\* A step of c after which it is r, and no further client has gone away.
LEMMA LinkStep ==
  ASSUME ChatInv, LinkInv, NEW c \in Conns, NEW r \in Handlers, h' = [h EXCEPT ![c] = r],
         UNCHANGED link, Breaking,
         \A d \in Conns : broken'[d] = TRUE => broken[d] = TRUE \/ link[d] = "closed",
         r.pc = "leave" => broken'[c] = TRUE,
         r.cast.failed \subseteq r.cast.seen
  PROVE  LinkInv'
<1>1. \A d \in Conns : h'[d] = IF d = c THEN r ELSE h[d]
  BY DEF ChatInv, TypeOK
<1> QED
  BY <1>1 DEF LinkInv, Breaking

\* The same of a step in which nobody breaks.
LEMMA LinkSame ==
  ASSUME ChatInv, LinkInv, NEW c \in Conns, NEW r \in Handlers, h' = [h EXCEPT ![c] = r],
         UNCHANGED <<link, broken>>, r.pc = "leave" => broken[c] = TRUE,
         Fresh(r.cast) \/ r.cast = h[c].cast
  PROVE  LinkInv'
<1>1. r.cast.failed \subseteq r.cast.seen
  BY DEF LinkInv, Fresh
<1> QED
  BY <1>1, SameBroken, LinkStep

LEMMA LinkBreaks ==
  ASSUME ChatInv, LinkInv, NEW d \in Conns, ~Sendable(d), Breaks(d)
  PROVE  /\ Breaking /\ broken'[d] = TRUE /\ link[d] = "closed"
         /\ \A e \in Conns : broken'[e] = TRUE => broken[e] = TRUE \/ link[e] = "closed"
<1>1. link[d] = "closed"
  BY DEF Sendable, LinkInv, ChatInv, TypeOK
<1> QED
  BY <1>1, NewlyBroken DEF Breaks, ChatInv, TypeOK
-----------------------------------------------------------------------------
RoomStep == Hall!Next \/ UNCHANGED Hall!vars

LEMMA CloseRoom == ASSUME ChatInv, LinkInv, NEW c \in Conns, Close(c) PROVE LinkInv' /\ RoomStep
<1>1. /\ link' = [link EXCEPT ![c] = "closed"] /\ link[c] = "open" /\ ~At(c, "new")
      /\ UNCHANGED <<active_connections, user_roles, broken, h>>
  BY DEF Close, manager
<1>2. \A d \in Conns : link'[d] = IF d = c THEN "closed" ELSE link[d]
  BY <1>1 DEF ChatInv, TypeOK
<1>3. LinkInv'
  BY <1>1, <1>2 DEF LinkInv
<1>4. WentAway' = WentAway \cup {c} /\ c \in Entered \ WentAway
  BY <1>1, <1>2 DEF WentAway, Entered
<1>5. UNCHANGED <<Entered, Unreadable, Speakers, Reached>>
  BY <1>1 DEF Entered, Unreadable, Speakers, Reached, Broadcasting, Met, Excluded, At
<1>6. Hall!GoAway(c)
  BY <1>1, <1>4, <1>5 DEF Hall!GoAway
<1> QED
  BY <1>3, <1>6 DEF RoomStep, Hall!Next

LEMMA ConnectRoom ==
  ASSUME ChatInv, LinkInv, NEW c \in Conns, NEW role \in Roles, Connect(c, role)
  PROVE  LinkInv' /\ RoomStep
<1>1. PICK q \in Handlers : q = h[c] /\ q.pc = "new" /\ Fresh(q.cast)
  BY Known DEF Connect, At, ConnOK
<1>2. PICK r : r = [q EXCEPT !.pc = "welcome", !.given = role]
  OBVIOUS
<1>3. r \in Handlers /\ r.pc = "welcome" /\ r.cast = q.cast
  BY <1>2 DEF Handlers, PCs
<1>4. h' = [h EXCEPT ![c] = r] /\ UNCHANGED <<link, broken>>
      /\ user_roles' = [user_roles EXCEPT ![c] = role]
  BY <1>1, <1>2 DEF Connect
<1>5. LinkInv'
  BY <1>1, <1>3, <1>4, LinkSame
<1>6. c \notin Entered /\ c \notin Speakers
  BY <1>1 DEF Entered, Speakers, Broadcasting, At
<1>7. Entered' = Entered \cup {c} /\ Speakers' = Speakers
  BY <1>3, <1>4, <1>6, Moved DEF Casters
<1>8. HeardBy(c, r) = {} /\ Reached[c] = {} /\ Reached = [Reached EXCEPT ![c] = Reached[c]]
  BY <1>1, <1>3, ReachedIs DEF HeardBy, Casters
<1>9. Reached' = [Reached EXCEPT ![c] = {}]
  <2>1. Reached' = [Reached EXCEPT ![c] = HeardBy(c, r)]
    BY <1>3, <1>4, Moved
  <2> QED
    BY <1>8, <2>1
<1>10. Reached' = Reached
  BY <1>8, <1>9
<1>11. UNCHANGED Unreadable
  BY <1>1, <1>3, <1>4, Readable
<1>12. Hall!Enter(c)
  BY <1>4, <1>6, <1>7, <1>10, <1>11 DEF Hall!Enter, WentAway
<1> QED
  BY <1>5, <1>12 DEF RoomStep, Hall!Next

LEMMA GreetRoom == ASSUME ChatInv, LinkInv, NEW c \in Conns, Greet(c) PROVE LinkInv' /\ RoomStep
<1>1. PICK pc \in {"info", "receive"} : Goto(c, pc)
  BY DEF Greet
<1>2. pc \in PCs /\ h[c].pc \in {"welcome", "info"} /\ UNCHANGED <<user_roles, link, broken>>
  BY DEF PCs, Greet, Greeting, manager
<1>3. PICK r \in Handlers : h' = [h EXCEPT ![c] = r] /\ r.pc = pc /\ r.cast = h[c].cast
  BY <1>1, <1>2, GotoIs
<1> QED
  BY <1>2, <1>3, LinkSame, Silently DEF RoomStep, Casters

LEMMA GreetBrokenRoom ==
  ASSUME ChatInv, LinkInv, NEW c \in Conns, GreetBroken(c) PROVE LinkInv' /\ RoomStep
<1>1. Goto(c, "leave") /\ "leave" \in PCs /\ h[c].pc \in {"welcome", "info"}
      /\ UNCHANGED <<user_roles, link, broken>> /\ broken[c] = TRUE
  BY DEF PCs, GreetBroken, Greeting, manager, ChatInv, TypeOK
<1>2. PICK r \in Handlers : h' = [h EXCEPT ![c] = r] /\ r.pc = "leave" /\ r.cast = h[c].cast
  BY <1>1, GotoIs
<1> QED
  BY <1>1, <1>2, LinkSame, Silently DEF RoomStep, Casters

LEMMA LeaveRoom == ASSUME ChatInv, LinkInv, NEW c \in Conns, Leave(c) PROVE LinkInv' /\ RoomStep
<1>1. Goto(c, "done") /\ "done" \in PCs /\ h[c].pc \in {"leave", "garbled"}
      /\ UNCHANGED <<link, broken>>
      /\ user_roles' = [d \in Conns |-> IF d \in {c} THEN None ELSE user_roles[d]]
  BY DEF PCs, Leave, Leaving, Disconnect
<1>2. PICK r \in Handlers : h' = [h EXCEPT ![c] = r] /\ r.pc = "done" /\ r.cast = h[c].cast
  BY <1>1, GotoIs
<1>3. LinkInv'
  BY <1>1, <1>2, LinkSame
<1>4. c \in WentAway \cup Unreadable
  BY <1>1 DEF LinkInv, WentAway, Unreadable, At
<1>5. c \in Entered /\ c \notin Speakers
  BY <1>1 DEF Entered, Speakers, Broadcasting, At
<1>6. HeardBy(c, r) = {} /\ Reached[c] = {} /\ Reached = [Reached EXCEPT ![c] = Reached[c]]
  BY <1>1, <1>2, ReachedIs DEF HeardBy, Casters
<1>7. Entered' = Entered /\ Speakers' = Speakers /\ Reached' = [Reached EXCEPT ![c] = {}]
  <2>1. r.pc # "new" /\ r.pc \notin Casters
    BY <1>2 DEF Casters
  <2>2. Entered' = Entered /\ Speakers' = Speakers
    BY <1>2, <1>5, <2>1, Moved
  <2>3. Reached' = [Reached EXCEPT ![c] = HeardBy(c, r)]
    BY <1>2, <2>1, Moved
  <2> QED
    BY <1>6, <2>2, <2>3
<1>8. Reached' = Reached
  BY <1>6, <1>7
<1>9. Unreadable' = Unreadable \ {c}
  BY <1>2, Moved
<1>10. Hall!Slip(c)
  BY <1>1, <1>4, <1>5, <1>7, <1>8, <1>9 DEF Hall!Slip, Hall!PutOut, WentAway
<1> QED
  BY <1>3, <1>10 DEF RoomStep, Hall!Next

LEMMA LeaveLoudlyRoom ==
  ASSUME ChatInv, LinkInv, NEW c \in Conns, LeaveLoudly(c), UNCHANGED link, Breaking,
         \A d \in Conns : broken'[d] = TRUE => broken[d] = TRUE \/ link[d] = "closed",
         link[c] = "closed", h[c].pc \in {"welcome", "info", "receive"}
  PROVE  LinkInv' /\ RoomStep
<1>1. h[c] \in Handlers /\ Disconnect({c})
  BY Known DEF LeaveLoudly
<1>2. active_connections' \in Seq(Conns)
  BY <1>1, DisconnectShrinks DEF Shrinks
<1>3. PICK cast \in Broadcasts : Fresh(cast) /\ cast = Casting(active_connections', None)
  BY <1>2, CastingIs
<1>4. PICK r : r = [h[c] EXCEPT !.pc = "notice", !.cast = cast]
  OBVIOUS
<1>5. h' = [h EXCEPT ![c] = r]
  BY <1>3, <1>4 DEF LeaveLoudly
<1>6. r \in Handlers /\ r.pc = "notice" /\ r.cast = cast
  BY <1>1, <1>4 DEF Handlers, PCs
<1>7. LinkInv'
  BY <1>3, <1>5, <1>6, LinkStep DEF Fresh
<1>8. c \in Entered /\ c \notin Speakers /\ c \in WentAway /\ UNCHANGED WentAway
  BY DEF Entered, Speakers, Broadcasting, At, WentAway
<1>9. HeardBy(c, r) = {}
  BY <1>3, <1>6, FreshHeard DEF Casters
<1>10. Entered' = Entered /\ Speakers' = Speakers \cup {c} /\ Reached' = [Reached EXCEPT ![c] = {}]
  <2>1. r.pc # "new" /\ r.pc \in Casters
    BY <1>6 DEF Casters
  <2>2. Entered' = Entered
    BY <1>5, <1>6, <1>8, <2>1, Moved
  <2>3. Speakers' = Speakers \cup {c}
    BY <1>5, <1>6, <2>1, Moved
  <2>4. Reached' = [Reached EXCEPT ![c] = HeardBy(c, r)]
    BY <1>5, <1>6, <2>1, Moved
  <2> QED
    BY <1>9, <2>2, <2>3, <2>4
<1>11. user_roles' = [d \in Conns |-> IF d \in {c} THEN None ELSE user_roles[d]]
  BY <1>1 DEF Disconnect
<1>12. UNCHANGED Unreadable
  BY <1>5, <1>6, Readable
<1>13. Hall!Depart(c)
  BY <1>8, <1>10, <1>11, <1>12 DEF Hall!Depart, Hall!PutOut, Hall!Begin
<1> QED
  BY <1>7, <1>13 DEF RoomStep, Hall!Next

LEMMA GreetFailsRoom ==
  ASSUME ChatInv, LinkInv, NEW c \in Conns, GreetFails(c) PROVE LinkInv' /\ RoomStep
<1>1. /\ LeaveLoudly(c) /\ UNCHANGED link /\ link[c] = "closed" /\ Breaks(c)
      /\ h[c].pc \in {"welcome", "info"} /\ ~Sendable(c)
  BY DEF GreetFails, Greeting, Sendable
<1> QED
  BY <1>1, LinkBreaks, LeaveLoudlyRoom

LEMMA HangupRoom == ASSUME ChatInv, LinkInv, NEW c \in Conns, Hangup(c) PROVE LinkInv' /\ RoomStep
BY SameBroken, LeaveLoudlyRoom DEF Hangup, At
-----------------------------------------------------------------------------
(* Commands. *)

LEMMA ReceiveRoom ==
  ASSUME ChatInv, LinkInv, NEW c \in Conns, NEW cmd \in Commands, Receive(c, cmd)
  PROVE  LinkInv' /\ RoomStep
<1>1. PICK q \in Handlers : q = h[c]
  BY Known
<1>2. PICK role \in Roles : role = get_user_role(c)
  BY Known DEF get_user_role, Roles
<1>3. PICK r : r = [q EXCEPT !.pc = "echo", !.cmd = cmd, !.role = role]
  OBVIOUS
<1>4. h' = [h EXCEPT ![c] = r] /\ UNCHANGED <<user_roles, link, broken>> /\ q.pc = "receive"
  BY <1>1, <1>2, <1>3 DEF Receive, At, manager
<1>5. r \in Handlers /\ r.pc = "echo" /\ r.cast = q.cast
  BY <1>3 DEF Handlers, PCs
<1> QED
  BY <1>1, <1>4, <1>5, LinkSame, Silently DEF RoomStep, Casters

LEMMA ReceiveBytesRoom ==
  ASSUME ChatInv, LinkInv, NEW c \in Conns, ReceiveBytes(c) PROVE LinkInv' /\ RoomStep
<1>1. Goto(c, "garbled") /\ "garbled" \in PCs /\ h[c].pc = "receive"
      /\ UNCHANGED <<user_roles, link, broken>>
  BY DEF PCs, ReceiveBytes, At, manager
<1>2. PICK r \in Handlers : h' = [h EXCEPT ![c] = r] /\ r.pc = "garbled" /\ r.cast = h[c].cast
  BY <1>1, GotoIs
<1>3. LinkInv'
  BY <1>1, <1>2, LinkSame
<1>4. c \in Entered /\ c \notin Speakers /\ c \notin Unreadable
  BY <1>1 DEF Entered, Speakers, Broadcasting, Unreadable, At
<1>5. HeardBy(c, r) = {} /\ Reached[c] = {} /\ Reached = [Reached EXCEPT ![c] = Reached[c]]
  BY <1>1, <1>2, ReachedIs DEF HeardBy, Casters
<1>6. r.pc # "new" /\ r.pc \notin Casters
  BY <1>2 DEF Casters
<1>7. Entered' = Entered /\ Speakers' = Speakers /\ Unreadable' = Unreadable \cup {c}
  BY <1>2, <1>4, <1>6, Moved
<1>8. Reached' = [Reached EXCEPT ![c] = {}]
  <2>1. Reached' = [Reached EXCEPT ![c] = HeardBy(c, r)]
    BY <1>2, <1>6, Moved
  <2> QED
    BY <1>5, <2>1
<1>9. Reached' = Reached
  BY <1>5, <1>8
<1>10. Hall!Garble(c)
  BY <1>1, <1>4, <1>7, <1>9 DEF Hall!Garble, WentAway
<1> QED
  BY <1>3, <1>10 DEF RoomStep, Hall!Next

LEMMA EchoRoom == ASSUME ChatInv, LinkInv, NEW c \in Conns, Echo(c) PROVE LinkInv' /\ RoomStep
<1>1. UNCHANGED <<user_roles, link, broken>> /\ broken[c] = FALSE /\ h[c].pc = "echo"
  BY Known DEF Echo, Sendable, At, manager
<1>2. CASE Quiet(h[c].cmd)
  <2>1. Goto(c, "process") /\ "process" \in PCs
    BY <1>2 DEF Echo, PCs
  <2>2. PICK r \in Handlers : h' = [h EXCEPT ![c] = r] /\ r.pc = "process" /\ r.cast = h[c].cast
    BY <2>1, GotoIs
  <2> QED
    BY <1>1, <2>2, LinkSame, Silently DEF RoomStep, Casters
<1>3. CASE ~Quiet(h[c].cmd)
  <2>1. "announce" \in PCs
        /\ h' = [h EXCEPT ![c].pc = "announce", ![c].cast = Casting(active_connections, c)]
    BY <1>3 DEF Echo, PCs
  <2>2. PICK r \in Handlers : h' = [h EXCEPT ![c] = r] /\ r.pc = "announce" /\ Fresh(r.cast)
    BY <2>1, CastIs
  <2> QED
    BY <1>1, <2>2, LinkSame, Spoken DEF RoomStep, Hall!Next
<1> QED
  BY <1>2, <1>3

LEMMA ProcessRoom == ASSUME ChatInv, LinkInv, NEW c \in Conns, Process(c) PROVE LinkInv' /\ RoomStep
<1>1. Goto(c, "respond") /\ "respond" \in PCs /\ h[c].pc = "process"
      /\ UNCHANGED <<user_roles, link, broken>>
  BY DEF PCs, Process, At, manager
<1>2. PICK r \in Handlers : h' = [h EXCEPT ![c] = r] /\ r.pc = "respond" /\ r.cast = h[c].cast
  BY <1>1, GotoIs
<1> QED
  BY <1>1, <1>2, LinkSame, Silently DEF RoomStep, Casters

LEMMA RespondRoom == ASSUME ChatInv, LinkInv, NEW c \in Conns, Respond(c) PROVE LinkInv' /\ RoomStep
<1>1. UNCHANGED <<user_roles, link, broken>> /\ broken[c] = FALSE /\ h[c].pc = "respond"
  BY Known DEF Respond, Sendable, At, manager
<1>2. CASE Public(h[c].cmd)
  <2>1. "declare" \in PCs
        /\ h' = [h EXCEPT ![c].pc = "declare", ![c].cast = Casting(active_connections, c)]
    BY <1>2 DEF Respond, PCs
  <2>2. PICK r \in Handlers : h' = [h EXCEPT ![c] = r] /\ r.pc = "declare" /\ Fresh(r.cast)
    BY <2>1, CastIs
  <2> QED
    BY <1>1, <2>2, LinkSame, Spoken DEF RoomStep, Hall!Next
<1>3. CASE ~Public(h[c].cmd)
  <2>1. Settle(c, "receive") /\ "receive" \in PCs
    BY <1>3 DEF Respond, PCs
  <2>2. PICK r \in Handlers : h' = [h EXCEPT ![c] = r] /\ r.pc = "receive" /\ Fresh(r.cast)
    BY <2>1, SettlesIs
  <2> QED
    BY <1>1, <2>2, LinkSame, Silently DEF RoomStep, Casters
<1> QED
  BY <1>2, <1>3

LEMMA ReplyFailsRoom ==
  ASSUME ChatInv, LinkInv, NEW c \in Conns, ReplyFails(c) PROVE LinkInv' /\ RoomStep
<1>1. UNCHANGED <<user_roles, link>> /\ Breaks(c) /\ ~Sendable(c) /\ h[c].pc \in {"echo", "respond"}
      /\ Settle(c, "leave") /\ "leave" \in PCs
  BY DEF ReplyFails, At, manager, PCs
<1>2. PICK r \in Handlers : h' = [h EXCEPT ![c] = r] /\ r.pc = "leave" /\ Fresh(r.cast)
  BY <1>1, SettlesIs
<1>3. LinkInv'
  BY <1>1, <1>2, LinkBreaks, LinkStep DEF Fresh
<1> QED
  BY <1>1, <1>2, <1>3, Silently DEF RoomStep, Casters

-----------------------------------------------------------------------------
(* The loop of a broadcast. *)

\* The broadcast of c becomes k.
Becomes(c, k) == h' = [h EXCEPT ![c].cast = k]

LEMMA CastBecomes ==
  ASSUME ChatInv, NEW c \in Conns, Broadcasting(c), NEW k \in Broadcasts, Becomes(c, k)
  PROVE  \E r \in Handlers : /\ h' = [h EXCEPT ![c] = r] /\ r.pc = h[c].pc /\ r.cast = k
                             /\ r.pc \in Casters
<1>1. PICK q \in Handlers : q = h[c]
  BY Known
<1>2. PICK r : r = [q EXCEPT !.cast = k]
  OBVIOUS
<1>3. r \in Handlers /\ r.pc = q.pc /\ r.cast = k
  BY <1>2 DEF Handlers
<1> QED
  BY <1>1, <1>2, <1>3 DEF Broadcasting, Casters, Becomes

LEMMA PickRoom == ASSUME ChatInv, LinkInv, NEW c \in Conns, Pick(c) PROVE LinkInv' /\ RoomStep
<1>1. PICK list \in Seq(Conns) : list = active_connections
  BY KnownCast
<1>2. PICK q \in Broadcasts : q = h[c].cast /\ CastOK(q, list) /\ q.failed \subseteq q.seen
  BY <1>1, KnownCast DEF LinkInv
<1>3. q.idx \in DOMAIN list /\ q.idx \in Nat /\ q.target = None
  BY <1>1, <1>2 DEF Pick, Broadcasts
<1>4. Broadcasting(c) /\ UNCHANGED <<user_roles, link, broken>>
  BY DEF Pick, manager
<1>5. PICK next \in Conns : next = list[q.idx]
  BY <1>3
<1>6. c \in Speakers /\ c \in Entered /\ Reached[c] = HeardBy(c, h[c])
  BY <1>4, ReachedIs DEF Speakers, Entered, Broadcasting, At
<1>7. CASE next = Excluded(c)
  <2>1. PICK k : k = [q EXCEPT !.idx = q.idx + 1]
    OBVIOUS
  <2>2. Becomes(c, k)
    BY <1>1, <1>2, <1>5, <1>7, <2>1 DEF Pick, Becomes
  <2>3. k \in Broadcasts /\ k.target = None /\ k.seen = q.seen /\ k.failed = q.failed
    BY <1>3, <2>1 DEF Broadcasts
  <2>4. PICK r \in Handlers : /\ h' = [h EXCEPT ![c] = r] /\ r.pc = h[c].pc /\ r.cast = k
                             /\ r.pc \in Casters
    BY <1>4, <2>2, <2>3, CastBecomes
  <2>5. LinkInv'
    BY <1>2, <1>4, <2>3, <2>4, SameBroken, LinkStep DEF Casters
  <2>6. HeardBy(c, r) = HeardBy(c, h[c])
    BY <1>2, <1>3, <2>3, <2>4 DEF HeardBy
  <2> QED
    BY <1>4, <2>4, <2>5, <2>6, Unseen DEF RoomStep, Casters
<1>8. CASE next # Excluded(c)
  <2>1. PICK k : k = [q EXCEPT !.idx = q.idx + 1, !.target = next]
    OBVIOUS
  <2>2. Becomes(c, k)
    BY <1>1, <1>2, <1>5, <1>8, <2>1 DEF Pick, Becomes
  <2>3. k \in Broadcasts /\ k.target = next /\ k.seen = q.seen /\ k.failed = q.failed
    <3>1. PICK n \in Nat \ {0} : n = q.idx + 1
      BY <1>3
    <3>2. k = [q EXCEPT !.idx = n, !.target = next]
      BY <2>1, <3>1
    <3> QED
      BY <3>2 DEF Broadcasts
  <2>4. PICK r \in Handlers : /\ h' = [h EXCEPT ![c] = r] /\ r.pc = h[c].pc /\ r.cast = k
                             /\ r.pc \in Casters
    BY <1>4, <2>2, <2>3, CastBecomes
  <2>5. LinkInv'
    BY <1>2, <1>4, <2>3, <2>4, SameBroken, LinkStep DEF Casters
  <2>6. Listed(next) /\ user_roles[next] # None
    BY <1>1, <1>3, <1>5 DEF Listed, ChatInv, ListOK
  <2>7. next \notin HeardBy(c, h[c])
    BY <1>2, <1>3, <1>5, <1>8, NoneAssumption
    DEF HeardBy, CastOK, Excluded, At
  <2>8. HeardBy(c, r) = HeardBy(c, h[c]) \cup {next}
    BY <1>2, <1>3, <2>3, <2>4, NoneAssumption DEF HeardBy
  <2>9. Reached' = [Reached EXCEPT ![c] = Reached[c] \cup {next}]
    <3>1. Reached' = [Reached EXCEPT ![c] = HeardBy(c, r)]
      BY <2>4, Moved DEF Casters
    <3> QED
      BY <1>6, <2>8, <3>1
  <2>10. Entered' = Entered /\ Speakers' = Speakers
    BY <1>6, <2>4, Moved DEF Casters
  <2>11. UNCHANGED Unreadable
    BY <2>4, Readable DEF Casters
  <2>12. Hall!Reach(c, next)
    BY <1>4, <1>6, <2>6, <2>7, <2>9, <2>10, <2>11 DEF Hall!Reach, Hall!Members, WentAway
  <2> QED
    BY <2>5, <2>12 DEF RoomStep, Hall!Next
<1> QED
  BY <1>7, <1>8

LEMMA DeliverRoom == ASSUME ChatInv, LinkInv, NEW c \in Conns, Deliver(c) PROVE LinkInv' /\ RoomStep
<1>1. PICK q \in Broadcasts : q = h[c].cast /\ q.failed \subseteq q.seen
  BY KnownCast DEF LinkInv
<1>2. PICK t \in Conns : t = q.target
  BY <1>1 DEF Deliver, Broadcasts
<1>3. Broadcasting(c) /\ UNCHANGED <<user_roles, link>>
  BY DEF Deliver, manager
\* Either way the mapping counts t among those the broadcast has come to.
<1>4. ASSUME NEW r, r.pc = h[c].pc, r.cast.target = None, r.cast.seen = q.seen \cup {t}
      PROVE  HeardBy(c, r) = HeardBy(c, h[c])
  BY <1>1, <1>2, <1>4, NoneAssumption DEF HeardBy
<1>5. CASE Sendable(t)
  <2>1. PICK k : k = [q EXCEPT !.target = None, !.seen = q.seen \cup {t}]
    OBVIOUS
  <2>2. Becomes(c, k) /\ UNCHANGED broken
    BY <1>1, <1>2, <1>5, <2>1 DEF Deliver, Becomes
  <2>3. k \in Broadcasts /\ k.target = None /\ k.seen = q.seen \cup {t} /\ k.failed = q.failed
    BY <2>1 DEF Broadcasts
  <2>4. PICK r \in Handlers : /\ h' = [h EXCEPT ![c] = r] /\ r.pc = h[c].pc /\ r.cast = k
                             /\ r.pc \in Casters
    BY <1>3, <2>2, <2>3, CastBecomes
  <2>5. LinkInv'
    BY <1>1, <1>3, <2>2, <2>3, <2>4, SameBroken, LinkStep DEF Casters
  <2> QED
    BY <1>3, <1>4, <2>3, <2>4, <2>5, Unseen DEF RoomStep, Casters
<1>6. CASE ~Sendable(t)
  <2>1. PICK k : k = [q EXCEPT !.target = None, !.seen = q.seen \cup {t}, !.failed = q.failed \cup {t}]
    OBVIOUS
  <2>2. Becomes(c, k) /\ Breaks(t)
    BY <1>1, <1>2, <1>6, <2>1 DEF Deliver, Becomes
  <2>3. k \in Broadcasts /\ k.target = None /\ k.seen = q.seen \cup {t}
        /\ k.failed = q.failed \cup {t}
    BY <2>1 DEF Broadcasts
  <2>4. PICK r \in Handlers : /\ h' = [h EXCEPT ![c] = r] /\ r.pc = h[c].pc /\ r.cast = k
                             /\ r.pc \in Casters
    BY <1>3, <2>2, <2>3, CastBecomes
  <2>5. k.failed \subseteq k.seen
    BY <1>1, <2>3
  <2>6. LinkInv'
    BY <1>3, <1>6, <2>2, <2>4, <2>5, LinkBreaks, LinkStep DEF Casters
  <2> QED
    BY <1>3, <1>4, <2>3, <2>4, <2>6, Unseen DEF RoomStep, Casters
<1> QED
  BY <1>5, <1>6

\* When the iterator is exhausted, those it has missed are the ones it has
\* stepped over.
LEMMA MissedAre ==
  ASSUME ChatInv, NEW c \in Conns, Exhausted(c)
  PROVE  /\ Reached[c] = Met(c) /\ Met(c) \subseteq Conns
         /\ Hall!Members \ Reached[c] = Skipped(c)
         /\ Reached[c] \ Hall!Members = Left(c)
<1>1. PICK list \in Seq(Conns) : list = active_connections
  BY KnownCast
<1>2. PICK q \in Broadcasts : q = h[c].cast
  BY KnownCast
<1>3. Reached[c] = Met(c)
  BY DEF Reached, Exhausted
<1>4. Met(c) \subseteq Conns
  BY <1>2 DEF Met, Excluded, Broadcasts
<1>5. \A d \in Conns : d \in Hall!Members <=> Listed(d)
  BY DEF Hall!Members, ChatInv, ListOK
<1>6. \A d \in Conns : Listed(d) <=> d \in Passed(c)
  <2>1. Len(list) \in Nat /\ DOMAIN list = 1..Len(list) /\ q.idx > Len(list) /\ q.idx \in Nat
    BY <1>1, <1>2 DEF Exhausted, Broadcasts
  <2>2. \A i \in DOMAIN list : i < q.idx
    BY <2>1
  <2> QED
    BY <1>1, <1>2, <2>2 DEF Listed, Passed
<1>7. Passed(c) \subseteq Conns /\ Hall!Members \subseteq Conns
  BY <1>1 DEF Passed, Hall!Members
<1>8. Hall!Members \ Reached[c] = Skipped(c)
  BY <1>3, <1>5, <1>6, <1>7 DEF Skipped
<1>9. Reached[c] \ Hall!Members = Left(c)
  BY <1>3, <1>4, <1>5 DEF Left
<1> QED
  BY <1>3, <1>4, <1>8, <1>9

\* Room counts as ChatOps does.
LEMMA SameCount == ASSUME NEW S PROVE Hall!Cardinality(S) = Cardinality(S)
BY DEF Hall!Cardinality, Cardinality

LEMMA EndsRoom ==
  ASSUME ChatInv, LinkInv, NEW c \in Conns, CountOK(c), Exhausted(c), Cleanup(c),
         NEW r \in Handlers, h' = [h EXCEPT ![c] = r], r.pc \in {"process", "leave", "receive", "done"},
         r.pc = "leave" => broken[c] = TRUE, Fresh(r.cast), UNCHANGED <<link, broken>>
  PROVE  LinkInv' /\ RoomStep
<1>1. LinkInv'
  BY LinkSame
<1>2. PICK q \in Broadcasts : q = h[c].cast
  BY KnownCast
<1>3. Broadcasting(c) /\ c \in Speakers /\ c \in Entered
  BY DEF Exhausted, Speakers, Entered, Broadcasting, At
<1>4. Cardinality(Hall!Members \ Reached[c]) <= Cardinality(Reached[c] \ Hall!Members)
  BY <1>3, MissedAre, CountBounds
<1>5. PICK S : S = q.failed
  OBVIOUS
<1>6. S \subseteq Met(c)
  <2>1. S \subseteq q.seen /\ q.seen \subseteq Conns
    BY <1>2, <1>5 DEF LinkInv, Broadcasts
  <2> QED
    BY <1>2, <2>1, NoneAssumption DEF Met
<1>7. S \subseteq WentAway
  BY <1>2, <1>5, KnownCast DEF LinkInv, WentAway
<1>8. user_roles' = [d \in Conns |-> IF d \in S THEN None ELSE user_roles[d]]
  BY <1>2, <1>5 DEF Cleanup, Disconnect
<1>9. S \in SUBSET (Reached[c] \cap WentAway) /\ Hall!PutOut(S)
  BY <1>6, <1>7, <1>8, MissedAre DEF Hall!PutOut
<1>10. r.pc \notin Casters /\ r.pc # "new" /\ HeardBy(c, r) = {}
  BY DEF Casters, HeardBy
<1>11. Speakers' = Speakers \ {c} /\ Entered' = Entered
  BY <1>3, <1>10, Moved
<1>12. Reached' = [Reached EXCEPT ![c] = {}]
  <2>1. Reached' = [Reached EXCEPT ![c] = HeardBy(c, r)]
    BY <1>10, Moved
  <2> QED
    BY <1>10, <2>1
<1>13. UNCHANGED <<Entered, WentAway, Unreadable>>
  <2>1. h[c].pc # "garbled"
    BY <1>3 DEF Broadcasting
  <2> QED
    BY <1>11, <2>1, Readable DEF WentAway
<1>14. \E T \in SUBSET (Reached[c] \cap WentAway) : Hall!PutOut(T)
  BY <1>9
<1>15. Hall!End(c)
  BY <1>3, <1>4, <1>11, <1>12, <1>13, <1>14, SameCount DEF Hall!End
<1> QED
  BY <1>1, <1>15 DEF RoomStep, Hall!Next

LEMMA EndAnnounceRoom ==
  ASSUME ChatInv, LinkInv, NEW c \in Conns, CountOK(c), EndAnnounce(c) PROVE LinkInv' /\ RoomStep
<1>1. PICK q \in Handlers : q = h[c]
  BY Known
<1>2. PICK none \in Broadcasts : none = NoBroadcast /\ Fresh(none)
  BY NoBroadcastIs
<1>3. PICK r : r = [q EXCEPT !.pc = "process", !.cast = none]
  OBVIOUS
<1>4. r \in Handlers /\ r.pc = "process" /\ r.cast = none
  BY <1>3 DEF Handlers, PCs
<1>5. h' = [h EXCEPT ![c] = r]
  BY <1>1, <1>2, <1>3 DEF EndAnnounce
<1>6. Exhausted(c) /\ Cleanup(c) /\ UNCHANGED <<link, broken>>
  BY DEF EndAnnounce
<1> QED
  BY <1>2, <1>4, <1>5, <1>6, EndsRoom

LEMMA EndDeclareRoom ==
  ASSUME ChatInv, LinkInv, NEW c \in Conns, CountOK(c), EndDeclare(c) PROVE LinkInv' /\ RoomStep
<1>1. PICK pc \in {"leave", "receive"} : Settle(c, pc) /\ (pc = "leave" => broken[c] = TRUE)
  BY Known DEF EndDeclare
<1>2. PICK r \in Handlers : h' = [h EXCEPT ![c] = r] /\ r.pc = pc /\ Fresh(r.cast)
  BY <1>1, SettlesIs DEF PCs
<1> QED
  BY <1>1, <1>2, EndsRoom DEF EndDeclare

LEMMA EndNoticeRoom ==
  ASSUME ChatInv, LinkInv, NEW c \in Conns, CountOK(c), EndNotice(c) PROVE LinkInv' /\ RoomStep
<1>1. PICK r \in Handlers : h' = [h EXCEPT ![c] = r] /\ r.pc = "done" /\ Fresh(r.cast)
  BY SettlesIs DEF EndNotice, PCs
<1> QED
  BY <1>1, EndsRoom DEF EndNotice

-----------------------------------------------------------------------------
LEMMA InitLink == Init => LinkInv
BY NoBroadcastIs DEF Init, NewHandler, LinkInv, Fresh

LEMMA InitRoom == Init => Hall!Init
<1> SUFFICES ASSUME Init PROVE Hall!Init
  OBVIOUS
<1>1. \A c \in Conns : h[c].pc = "new" /\ link[c] = "open" /\ ~Broadcasting(c)
  BY DEF Init, NewHandler, Broadcasting
<1>2. Entered = {} /\ WentAway = {} /\ Unreadable = {} /\ Speakers = {}
  BY <1>1 DEF Entered, WentAway, Unreadable, Speakers, At
<1>3. Reached = [c \in Conns |-> {}]
  BY <1>1 DEF Reached
<1> QED
  BY <1>2, <1>3 DEF Init, Hall!Init

LEMMA NextRoom ==
  ASSUME ChatInv, CountInv, LinkInv, [Next]_vars PROVE LinkInv' /\ RoomStep
<1>1. CASE UNCHANGED vars
  <2>1. UNCHANGED <<active_connections, user_roles, link, broken, h>>
    BY <1>1 DEF vars, manager
  <2>2. LinkInv'
    BY <2>1 DEF LinkInv
  <2>3. UNCHANGED <<Entered, WentAway, Unreadable, user_roles, Speakers, Reached>>
    BY <2>1 DEF Entered, WentAway, Unreadable, Speakers, Reached, Broadcasting, Met, Excluded, At
  <2> QED
    BY <2>2, <2>3 DEF RoomStep, Hall!vars
<1>2. ASSUME NEW c \in Conns, Step(c) PROVE LinkInv' /\ RoomStep
  <2>1. CountOK(c)
    BY DEF CountInv
  <2> QED
    BY <1>2, <2>1, GreetRoom, GreetFailsRoom, GreetBrokenRoom, LeaveRoom, HangupRoom, EchoRoom,
       ProcessRoom, RespondRoom, ReplyFailsRoom, PickRoom, DeliverRoom, EndAnnounceRoom,
       EndDeclareRoom, EndNoticeRoom DEF Step
<1>3. CASE Next
  BY <1>2, <1>3, CloseRoom, ConnectRoom, ReceiveRoom, ReceiveBytesRoom DEF Next
<1> QED
  BY <1>1, <1>3

(***************************************************************************)
(* Whoever connects, breaks and leaves while broadcasts are under way: one *)
(* enters the room once, only who is in it speaks, the messages of others  *)
(* put nobody out whose client is still there, one leaves without a word   *)
(* only for a cause of one's own, a message comes to nobody twice and      *)
(* misses at most one for each who has left: ChatOps implements Room.      *)
(***************************************************************************)
THEOREM ChatIsRoom == Spec => IsRoom
<1>1. ChatInv /\ CountInv /\ LinkInv /\ [Next]_vars => LinkInv' /\ [Hall!Next]_Hall!vars
  BY NextRoom DEF RoomStep
<1>2. Init => Hall!Init /\ LinkInv
  BY InitRoom, InitLink
<1> QED
  BY <1>1, <1>2, ChatInvHolds, CountInvHolds, PTL DEF Spec, IsRoom, Hall!Spec
=============================================================================
