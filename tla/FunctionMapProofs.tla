-------------------------- MODULE FunctionMapProofs --------------------------
(***************************************************************************)
(* Proofs about FunctionMap, for any functions, instructions and addresses.*)
(*                                                                         *)
(* The state is typed by TypeOK.  On top of it the inductive invariant     *)
(* BoundsInv says what the bounds are, function by function: with sorted   *)
(* functions each one ends just before the next, and the last one at       *)
(* LastIP; and that lookups are made in a map that is complete.            *)
(***************************************************************************)
EXTENDS FunctionMap, SetsOfNumbers

-----------------------------------------------------------------------------
(* The invariant.                                                          *)

\* t is the function after s.
IsNext(s, t) == s < t /\ \A u \in Keys : u <= s \/ t <= u

BoundsInv ==
  /\ sorted => \A s, t \in Keys : IsNext(s, t) => endIP[s] = t - 1
  /\ phase = "lookups" => \A s \in Keys : IsLast(s) => endIP[s] = LastIP
  /\ phase = "building" => owner = << >>

LEMMA KeysAreAddresses ==
  ASSUME TypeOK
  PROVE  Keys \subseteq 1 .. LastIP /\ Keys \subseteq Nat /\ LastIP \in Nat
BY AddressesAssumption DEF TypeOK

\* A function that is not the last one has a next one.
LEMMA NextExists ==
  ASSUME TypeOK, NEW s \in Keys, NEW v \in Keys, s < v
  PROVE  \E t \in Keys : IsNext(s, t)
<1> DEFINE Above == {u \in Keys : s < u}
<1>1. Above \subseteq Nat /\ Above # {}
  BY KeysAreAddresses
<1>2. PICK t \in Above : \A u \in Above : t <= u
  BY <1>1, LeastElement
<1>3. ASSUME NEW u \in Keys PROVE u <= s \/ t <= u
  <2>1. s \in Nat /\ u \in Nat
    BY KeysAreAddresses
  <2>2. CASE s < u
    BY <1>2, <2>2
  <2> QED BY <2>1, <2>2
<1> QED BY <1>2, <1>3 DEF IsNext

-----------------------------------------------------------------------------
(* The state is well formed.                                               *)

LEMMA InitType == Init => TypeOK
BY DEF Init, TypeOK, Keys

LEMMA AddFunctionType ==
  ASSUME TypeOK, NEW start \in Starts, AddFunction(start)
  PROVE  TypeOK'
<1>1. start \in 1 .. LastIP
  BY AddressesAssumption
<1>2. start - 1 \in 0 .. LastIP /\ 0 \in 0 .. LastIP
  BY <1>1, AddressesAssumption
<1>3. Closed(start) \in [Keys -> 0 .. LastIP]
  BY <1>2 DEF TypeOK, Closed
<1>4. endIP' \in [Keys \cup {start} -> 0 .. LastIP]
  BY <1>2, <1>3 DEF AddFunction
<1>5. Keys' = Keys \cup {start}
  BY <1>4 DEF Keys
<1>6. sorted' \in BOOLEAN
  BY DEF AddFunction
<1> QED BY <1>4, <1>5, <1>6 DEF AddFunction, TypeOK

LEMMA EndOfStructureType ==
  ASSUME TypeOK, EndOfStructure
  PROVE  TypeOK'
<1>1. LastIP \in 0 .. LastIP
  BY AddressesAssumption
<1>2. endIP' \in [Keys -> 0 .. LastIP]
  BY <1>1 DEF TypeOK, EndOfStructure
<1>3. Keys' = Keys
  BY <1>2 DEF Keys
<1> QED BY <1>2, <1>3 DEF EndOfStructure, TypeOK

\* Where upper_bound stops, there is a function to give the access to or the
\* decrement is undefined.
LEMMA OwnerFound ==
  ASSUME TypeOK, NEW ip \in IPs, Before(ip) # {}
  PROVE  /\ Max(Before(ip)) \in Before(ip)
         /\ \A s \in Before(ip) : s <= Max(Before(ip))
<1>1. Before(ip) \subseteq 0 .. LastIP /\ LastIP \in Nat
  BY KeysAreAddresses DEF Before
<1>2. PICK x \in Before(ip) : \A y \in Before(ip) : y <= x
  BY <1>1, GreatestElement
<1>3. \A y \in Before(ip) : x >= y
  BY <1>1, <1>2
<1>4. /\ Max(Before(ip)) \in Before(ip)
      /\ \A y \in Before(ip) : Max(Before(ip)) >= y
  BY <1>3 DEF Max
<1> QED BY <1>1, <1>4

LEMMA LookUpType ==
  ASSUME TypeOK, NEW ip \in IPs, LookUp(ip)
  PROVE  TypeOK'
<1>1. UNCHANGED <<endIP, sorted>> /\ Keys' = Keys
  BY DEF LookUp, Keys
<1>2. CASE UpperBound(ip) = {}
  <2>1. [ip |-> ip, func |-> NotFound]
          \in [ip : IPs, func : Starts \cup {NotFound}]
    OBVIOUS
  <2>3. phase' = phase /\ owner' = Append(owner, [ip |-> ip, func |-> NotFound])
    BY <1>2 DEF LookUp
  <2>2. owner' \in Seq([ip : IPs, func : Starts \cup {NotFound}])
    BY <2>1, <2>3 DEF TypeOK
  <2> QED BY <1>1, <2>2, <2>3 DEF TypeOK
<1>3. CASE UpperBound(ip) # {} /\ Before(ip) # {}
  <2>1. Max(Before(ip)) \in Starts
    BY <1>3, OwnerFound DEF Before, TypeOK
  <2>2. [ip |-> ip, func |-> Max(Before(ip))]
          \in [ip : IPs, func : Starts \cup {NotFound}]
    BY <2>1
  <2>3. owner' = Append(owner, [ip |-> ip, func |-> Max(Before(ip))])
        /\ phase' = phase
    BY <1>3 DEF LookUp
  <2>4. owner' \in Seq([ip : IPs, func : Starts \cup {NotFound}])
    BY <2>2, <2>3 DEF TypeOK
  <2> QED BY <1>1, <2>3, <2>4 DEF TypeOK
<1>4. CASE UpperBound(ip) # {} /\ Before(ip) = {}
  <2>1. phase' = "crashed" /\ owner' = owner
    BY <1>4 DEF LookUp
  <2> QED BY <1>1, <2>1 DEF TypeOK
<1> QED BY <1>2, <1>3, <1>4

LEMMA NextType ==
  ASSUME TypeOK, [Next]_vars
  PROVE  TypeOK'
<1>1. CASE UNCHANGED vars
  BY <1>1 DEF vars, TypeOK, Keys
<1>2. CASE Next
  BY <1>2, AddFunctionType, EndOfStructureType, LookUpType DEF Next
<1> QED BY <1>1, <1>2

\* The function map is well formed for any functions and any trace: the
\* bounds are addresses and an access is given to a function of the map or
\* to none.
THEOREM TypeCorrect == Spec => []TypeOK
<1>1. TypeOK /\ [Next]_vars => TypeOK'
  BY NextType
<1> QED BY <1>1, InitType, PTL DEF Spec

-----------------------------------------------------------------------------
(* The bounds.                                                             *)

LEMMA AddFunctionBounds ==
  ASSUME TypeOK, BoundsInv, NEW start \in Starts, AddFunction(start)
  PROVE  BoundsInv'
<1>1. Keys' = Keys \cup {start}
  BY DEF AddFunction, Keys
<1>2. Keys \subseteq Nat /\ start \in Nat
  BY KeysAreAddresses, AddressesAssumption
<1>3. \A s \in Keys : endIP'[s] = IF IsLast(s) THEN start - 1 ELSE endIP[s]
  BY <1>1 DEF AddFunction, Closed
<1>4. ASSUME sorted', NEW s \in Keys', NEW t \in Keys', IsNext(s, t)'
      PROVE  endIP'[s] = t - 1
  <2>1. sorted /\ \A u \in Keys : u < start
    BY <1>4 DEF AddFunction
  <2>2. s < t /\ \A u \in Keys \cup {start} : u <= s \/ t <= u
    BY <1>1, <1>4 DEF IsNext
  <2>3. s \in Keys
    BY <1>1, <1>2, <2>1, <2>2
  <2>4. CASE t = start
    <3>1. \A u \in Keys : u <= s
      BY <1>2, <2>1, <2>2, <2>4
    <3>2. IsLast(s)
      BY <2>3, <3>1 DEF IsLast
    <3> QED BY <1>3, <2>3, <2>4, <3>2
  <2>5. CASE t \in Keys
    <3>1. ~IsLast(s)
      BY <1>2, <2>2, <2>3, <2>5 DEF IsLast
    <3>2. endIP'[s] = endIP[s]
      BY <1>3, <2>3, <3>1
    <3>3. IsNext(s, t)
      BY <2>2 DEF IsNext
    <3> QED BY <2>1, <2>3, <2>5, <3>2, <3>3 DEF BoundsInv
  <2> QED BY <1>1, <2>4, <2>5
<1>5. phase' = "building" /\ owner' = << >>
  BY DEF AddFunction, BoundsInv
<1> QED BY <1>4, <1>5 DEF BoundsInv

LEMMA EndOfStructureBounds ==
  ASSUME TypeOK, BoundsInv, EndOfStructure
  PROVE  BoundsInv'
<1>1. Keys' = Keys
  BY DEF EndOfStructure, Keys
<1>2. \A s \in Keys : endIP'[s] = IF IsLast(s) THEN LastIP ELSE endIP[s]
  BY DEF EndOfStructure
<1>3. ASSUME sorted', NEW s \in Keys', NEW t \in Keys', IsNext(s, t)'
      PROVE  endIP'[s] = t - 1
  <2>1. sorted /\ IsNext(s, t) /\ s \in Keys /\ t \in Keys
    BY <1>1, <1>3 DEF EndOfStructure, IsNext
  <2>2. s \in Nat /\ t \in Nat /\ s < t
    BY <2>1, KeysAreAddresses DEF IsNext
  <2>3. ~IsLast(s)
    BY <2>1, <2>2 DEF IsLast
  <2>4. endIP'[s] = endIP[s]
    BY <1>2, <2>1, <2>3
  <2> QED BY <2>1, <2>4 DEF BoundsInv
<1>4. ASSUME NEW s \in Keys', IsLast(s)' PROVE endIP'[s] = LastIP
  BY <1>1, <1>2, <1>4 DEF IsLast
<1>5. phase' # "building"
  BY DEF EndOfStructure
<1> QED BY <1>3, <1>4, <1>5 DEF BoundsInv

LEMMA NextBounds ==
  ASSUME TypeOK, BoundsInv, [Next]_vars
  PROVE  BoundsInv'
<1>1. CASE UNCHANGED vars
  BY <1>1 DEF vars, BoundsInv, Keys, IsNext, IsLast
<1>2. ASSUME NEW ip \in IPs, LookUp(ip) PROVE BoundsInv'
  <2>1. UNCHANGED <<endIP, sorted>> /\ phase = "lookups"
        /\ phase' \in {"lookups", "crashed"}
    BY <1>2 DEF LookUp
  <2> QED BY <2>1 DEF BoundsInv, Keys, IsNext, IsLast
<1>3. CASE Next
  BY <1>2, <1>3, AddFunctionBounds, EndOfStructureBounds DEF Next
<1> QED BY <1>1, <1>3

\* What sorted bounds come to.
LEMMA BoundsPartitionHolds ==
  ASSUME TypeOK, BoundsInv
  PROVE  BoundsPartition
<1> SUFFICES ASSUME phase = "lookups", sorted,
                    NEW ip \in 0 .. LastIP, \E s \in Keys : s <= ip
             PROVE  /\ \E s \in Keys : InBounds(ip, s)
                    /\ \A s, t \in Keys :
                         InBounds(ip, s) /\ InBounds(ip, t) => s = t
  BY DEF BoundsPartition
<1>1. Keys \subseteq Nat /\ LastIP \in Nat /\ ip \in Nat
  BY KeysAreAddresses
<1>2. \E s \in Keys : InBounds(ip, s)
  <2> DEFINE Below == {s \in Keys : s <= ip}
  <2>1. Below # {}
    OBVIOUS
  <2>5. Below \subseteq 0 .. LastIP
    <3>1. Keys \subseteq 0 .. LastIP
      BY KeysAreAddresses
    <3> QED BY <3>1
  <2>2. PICK s \in Below : \A u \in Below : u <= s
    BY <1>1, <2>1, <2>5, GreatestElement
  <2>3. CASE IsLast(s)
    <3>1. endIP[s] = LastIP
      BY <2>3 DEF BoundsInv
    <3> QED BY <2>2, <3>1 DEF InBounds
  <2>4. CASE ~IsLast(s)
    <3>1. PICK v \in Keys : ~(v <= s)
      BY <2>4 DEF IsLast
    <3>2. s < v
      BY <1>1, <3>1
    <3>3. PICK t \in Keys : IsNext(s, t)
      BY <3>2, NextExists
    <3>4. endIP[s] = t - 1
      BY <3>3 DEF BoundsInv
    <3>5. ip < t
      BY <1>1, <2>2, <3>3 DEF IsNext
    <3> QED BY <1>1, <2>2, <3>4, <3>5 DEF InBounds
  <2> QED BY <2>3, <2>4
<1>3. ASSUME NEW s \in Keys, NEW t \in Keys, s < t,
             InBounds(ip, s), InBounds(ip, t)
      PROVE  FALSE
  <2>1. PICK u \in Keys : IsNext(s, u)
    BY <1>3, NextExists
  <2>2. endIP[s] = u - 1
    BY <2>1 DEF BoundsInv
  <2>3. u <= t
    BY <1>1, <1>3, <2>1 DEF IsNext
  <2> QED BY <1>1, <1>3, <2>2, <2>3 DEF InBounds
<1>4. ASSUME NEW s \in Keys, NEW t \in Keys, InBounds(ip, s), InBounds(ip, t)
      PROVE  s = t
  <2>1. s < t \/ t < s \/ s = t
    BY <1>1
  <2> QED BY <1>3, <1>4, <2>1
<1> QED BY <1>2, <1>4

LEMMA InitBounds == Init => BoundsInv
BY DEF Init, BoundsInv, Keys

LEMMA BoundsInvariant == Spec => [](TypeOK /\ BoundsInv)
<1>1. TypeOK /\ BoundsInv /\ [Next]_vars => TypeOK' /\ BoundsInv'
  BY NextType, NextBounds
<1> QED BY <1>1, InitType, InitBounds, PTL DEF Spec

\* Functions in ascending order get bounds without gap or overlap, for any
\* number of them.
THEOREM BoundsPartitionCorrect == Spec => []BoundsPartition
<1>1. TypeOK /\ BoundsInv => BoundsPartition
  BY BoundsPartitionHolds
<1> QED BY <1>1, BoundsInvariant, PTL

-----------------------------------------------------------------------------
(* The lookups.                                                            *)

LEMMA LookUpNearest ==
  ASSUME TypeOK, NearestFunction, NEW ip \in IPs, LookUp(ip)
  PROVE  NearestFunction'
<1>1. Keys' = Keys /\ Keys \subseteq Nat /\ ip \in Nat
  BY KeysAreAddresses, AddressesAssumption DEF LookUp, Keys
<1> DEFINE Answer(i) ==
      /\ owner'[i].func # NotFound =>
           /\ owner'[i].func \in Keys
           /\ owner'[i].func <= owner'[i].ip
           /\ \A s \in Keys : s <= owner'[i].ip => s <= owner'[i].func
           /\ \E s \in Keys : owner'[i].ip < s
      /\ owner'[i].func = NotFound => \A s \in Keys : s <= owner'[i].ip
<1>2. CASE owner' = owner
  BY <1>1, <1>2 DEF NearestFunction
<1>3. ASSUME NEW answer, owner' = Append(owner, answer),
             owner'[Len(owner) + 1] = answer => Answer(Len(owner) + 1)
      PROVE  NearestFunction'
  <2>1. /\ DOMAIN owner' = 1 .. Len(owner) + 1
        /\ owner'[Len(owner) + 1] = answer
        /\ \A i \in DOMAIN owner : owner'[i] = owner[i]
        /\ DOMAIN owner = 1 .. Len(owner) /\ Len(owner) \in Nat
    BY <1>3 DEF TypeOK
  <2>2. ASSUME NEW i \in DOMAIN owner PROVE Answer(i)
    BY <2>1, <2>2 DEF NearestFunction
  <2>3. \A i \in DOMAIN owner' : Answer(i)
    BY <1>3, <2>1, <2>2
  <2> QED BY <1>1, <2>3 DEF NearestFunction
<1>4. CASE UpperBound(ip) = {}
  <2> DEFINE answer == [ip |-> ip, func |-> NotFound]
  <2>1. owner' = Append(owner, answer)
    BY <1>4 DEF LookUp
  <2>2. \A s \in Keys : s <= ip
    BY <1>1, <1>4 DEF UpperBound
  <2>3. owner'[Len(owner) + 1] = answer => Answer(Len(owner) + 1)
    BY <2>2
  <2> HIDE DEF answer, Answer
  <2> QED BY <1>3, <2>1, <2>3
<1>5. CASE UpperBound(ip) # {} /\ Before(ip) # {}
  <2> DEFINE answer == [ip |-> ip, func |-> Max(Before(ip))]
  <2>1. owner' = Append(owner, answer)
    BY <1>5 DEF LookUp
  <2>2. /\ Max(Before(ip)) \in Before(ip)
        /\ \A s \in Before(ip) : s <= Max(Before(ip))
    BY <1>5, OwnerFound
  <2>3. Max(Before(ip)) \in Keys /\ Max(Before(ip)) <= ip
    <3> DEFINE M == Max(Before(ip))
    <3>1. M \in Before(ip)
      BY <2>2
    <3> HIDE DEF M
    <3>2. M \in Keys /\ ~(ip < M)
      BY <3>1 DEF Before, UpperBound
    <3>3. M <= ip
      BY <1>1, <3>2
    <3> QED BY <3>2, <3>3 DEF M
  <2>8. Max(Before(ip)) \in Nat
    BY <1>1, <2>3
  <2>4. \A s \in Keys : s <= ip => s <= Max(Before(ip))
    BY <1>1, <2>2 DEF Before, UpperBound
  <2>5. \E s \in Keys : ip < s
    BY <1>5 DEF UpperBound
  <2>6. Max(Before(ip)) # NotFound
    BY <2>8 DEF NotFound
  <2>7. owner'[Len(owner) + 1] = answer => Answer(Len(owner) + 1)
    <3> SUFFICES ASSUME owner'[Len(owner) + 1] = answer
                 PROVE  Answer(Len(owner) + 1)
      OBVIOUS
    <3> DEFINE o == owner'[Len(owner) + 1]
    <3>1. o.func = Max(Before(ip)) /\ o.ip = ip
      OBVIOUS
    <3> HIDE DEF o
    <3>2. o.func # NotFound
      BY <2>6, <3>1
    <3>3. /\ o.func \in Keys
          /\ o.func <= o.ip
          /\ \A s \in Keys : s <= o.ip => s <= o.func
          /\ \E s \in Keys : o.ip < s
      BY <2>3, <2>4, <2>5, <3>1
    <3> QED BY <3>2, <3>3 DEF o
  <2> HIDE DEF answer, Answer
  <2> QED BY <1>3, <2>1, <2>7
<1>6. CASE UpperBound(ip) # {} /\ Before(ip) = {}
  BY <1>2, <1>6 DEF LookUp
<1> QED BY <1>4, <1>5, <1>6

LEMMA NextNearest ==
  ASSUME TypeOK, BoundsInv, NearestFunction, [Next]_vars
  PROVE  NearestFunction'
<1>1. CASE UNCHANGED vars
  BY <1>1 DEF vars, NearestFunction, Keys
<1>2. ASSUME NEW start \in Starts, AddFunction(start) PROVE NearestFunction'
  BY <1>2 DEF AddFunction, BoundsInv, NearestFunction
<1>3. CASE EndOfStructure
  BY <1>3 DEF EndOfStructure, BoundsInv, NearestFunction
<1>4. CASE Next
  BY <1>2, <1>3, <1>4, LookUpNearest DEF Next
<1> QED BY <1>1, <1>4

LEMMA InitNearest == Init => NearestFunction
BY DEF Init, NearestFunction

\* Every access is given to the nearest function at or before it, in whatever
\* order the functions were listed, or to none from the last function on.
THEOREM NearestFunctionCorrect == Spec => []NearestFunction
<1>1. TypeOK /\ BoundsInv /\ NearestFunction /\ [Next]_vars
        => NearestFunction'
  BY NextNearest
<1> QED BY <1>1, InitNearest, BoundsInvariant, PTL DEF Spec

LEMMA OwnerInBoundsHolds ==
  ASSUME TypeOK, BoundsInv, NearestFunction
  PROVE  OwnerInBounds
<1> SUFFICES ASSUME sorted, NEW i \in DOMAIN owner, owner[i].func # NotFound
             PROVE  InBounds(owner[i].ip, owner[i].func)
  BY DEF OwnerInBounds
<1>1. /\ owner[i].func \in Keys
      /\ owner[i].func <= owner[i].ip
      /\ \A s \in Keys : s <= owner[i].ip => s <= owner[i].func
      /\ \E s \in Keys : owner[i].ip < s
  BY DEF NearestFunction
<1>2. PICK v \in Keys : owner[i].ip < v
  BY <1>1
<1> DEFINE f == owner[i].func
           ip == owner[i].ip
<1>3. f \in Keys /\ f <= ip /\ \A s \in Keys : s <= ip => s <= f
  BY <1>1
<1>4. Keys \subseteq Nat /\ ip \in Nat
  <2> DEFINE R == [ip : IPs, func : Starts \cup {NotFound}]
  <2>3. owner[i] \in R
    <3>1. owner \in Seq(R)
      BY DEF TypeOK
    <3> HIDE DEF R
    <3> QED BY <3>1
  <2>1. owner[i].ip \in IPs
    BY <2>3
  <2>2. IPs \subseteq Nat
    BY AddressesAssumption
  <2> QED BY <2>1, <2>2, KeysAreAddresses
<1>10. ip < v
  BY <1>2
<1> HIDE DEF f, ip
<1>5. f < v /\ f \in Nat
  BY <1>3, <1>4, <1>10
<1>6. PICK t \in Keys : IsNext(f, t)
  BY <1>3, <1>5, NextExists
<1>7. endIP[f] = t - 1
  BY <1>3, <1>6 DEF BoundsInv
<1>8. ip < t
  <2>1. f < t /\ t \in Nat
    BY <1>4, <1>6 DEF IsNext
  <2>2. t <= ip => t <= f
    BY <1>3
  <2> QED BY <1>4, <1>5, <2>1, <2>2
<1>9. InBounds(ip, f)
  BY <1>3, <1>4, <1>6, <1>7, <1>8 DEF InBounds
<1> QED BY <1>9 DEF f, ip

\* From functions in ascending order, the lookup and the bounds agree on every
\* access, for any number of functions and accesses.
THEOREM OwnerInBoundsCorrect == Spec => []OwnerInBounds
<1>1. TypeOK /\ BoundsInv /\ NearestFunction => OwnerInBounds
  BY OwnerInBoundsHolds
<1> QED BY <1>1, NearestFunctionCorrect, BoundsInvariant, PTL

\* For any number of functions in ascending order and any accesses, the bounds
\* leave no gap and no overlap, and the lookups agree with them.
THEOREM BoundsAgreeCorrect == Spec => []BoundsAgree
<1>1. BoundsPartition /\ OwnerInBounds => BoundsAgree
  BY DEF BoundsAgree
<1> QED BY <1>1, BoundsPartitionCorrect, OwnerInBoundsCorrect, PTL
=============================================================================
