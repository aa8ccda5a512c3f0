----------------------------- MODULE FunctionMap -----------------------------
(***************************************************************************)
(* The function map of mem-anlys/main.cpp: built from the <P> lines of an  *)
(* hpcstruct file, then asked which function an instruction belongs to,    *)
(* once for every access of the trace.                                     *)
(*                                                                         *)
(* hpcstruct groups functions by source file, so their start addresses do  *)
(* not come in ascending order (all the files of mem-anlys/check have a    *)
(* second group below the first).  Names are left out.                     *)
(***************************************************************************)
EXTENDS Integers, Sequences, FiniteSetsExt

CONSTANTS
  Starts,      \* start addresses of functions
  IPs,         \* instruction addresses of the trace
  LastIP,      \* the sentinel 0x7FFFFFFFFFFF
  MaxAccesses  \* bound on the accesses of a trace

ASSUME AddressesAssumption ==
  /\ LastIP \in Nat
  /\ Starts \subseteq 1 .. LastIP
  /\ IPs \subseteq 0 .. LastIP
  /\ MaxAccesses \in Nat

VARIABLES
  phase,   \* "building", "lookups", or "crashed"
  endIP,   \* funcMAP: its keys are the start addresses, its values the endIPs
  sorted,  \* history: every start so far was above all those before it
  owner    \* what each access of the trace was found to be in, in order

vars == <<phase, endIP, sorted, owner>>

NotFound == -1
Keys     == DOMAIN endIP

\* The last element of a map, by key: what end() followed by -- gives.
IsLast(s) == s \in Keys /\ \A t \in Keys : t <= s

Init ==
  /\ phase = "building"
  /\ endIP = [s \in {} |-> 0]
  /\ sorted = TRUE
  /\ owner = << >>

\* Slip: the last address of the function is lost.
ClosedShort(start) ==
  [s \in Keys |-> IF IsLast(s) THEN start - 2 ELSE endIP[s]]

\* The last function of the map ends where the new one starts.
Closed(start) ==
  [s \in Keys |-> IF IsLast(s) THEN start - 1 ELSE endIP[s]]

\* A <P> line.  insert leaves the map alone when it has the key already.
AddFunction(start) ==
  /\ phase = "building"
  /\ endIP' = [s \in Keys \cup {start} |->
                 IF s \in Keys THEN Closed(start)[s] ELSE 0]
  /\ sorted' = (sorted /\ \A s \in Keys : s < start)
  /\ UNCHANGED <<phase, owner>>

\* The end of the file.  With no function at all the code decrements the end
\* of an empty map and writes through it.
EndOfStructure ==
  /\ phase = "building"
  /\ phase' = IF Keys = {} THEN "crashed" ELSE "lookups"
  /\ endIP' = [s \in Keys |-> IF IsLast(s) THEN LastIP ELSE endIP[s]]
  /\ UNCHANGED <<sorted, owner>>

\* Slip: lower_bound instead of upper_bound.
BoundFromIP(ip) == {s \in Keys : ip <= s}

\* The elements from upper_bound(ip) on.
UpperBound(ip) == {s \in Keys : ip < s}

\* The elements before upper_bound(ip): the last of them is the function.
Before(ip) == Keys \ UpperBound(ip)

\* An access of the trace.
LookUp(ip) ==
  /\ phase = "lookups"
  /\ Len(owner) < MaxAccesses
  /\ \/ /\ UpperBound(ip) = {}
        /\ owner' = Append(owner, [ip |-> ip, func |-> NotFound])
        /\ UNCHANGED phase
     \/ /\ UpperBound(ip) # {}
        /\ Before(ip) # {}
        /\ owner' = Append(owner, [ip |-> ip, func |-> Max(Before(ip))])
        /\ UNCHANGED phase
     \* -- on begin(): no function starts at or below ip.
     \/ /\ UpperBound(ip) # {}
        /\ Before(ip) = {}
        /\ phase' = "crashed"
        /\ UNCHANGED owner
  /\ UNCHANGED <<endIP, sorted>>

Next ==
  \/ \E start \in Starts : AddFunction(start)
  \/ EndOfStructure
  \/ \E ip \in IPs : LookUp(ip)

Spec == Init /\ [][Next]_vars
-----------------------------------------------------------------------------
(* Properties.                                                             *)

\* The state is well formed (funcMAP and the lookups of main.cpp).
TypeOK ==
  /\ phase \in {"building", "lookups", "crashed"}
  /\ Keys \subseteq Starts
  /\ endIP \in [Keys -> 0 .. LastIP]
  /\ sorted \in BOOLEAN
  /\ owner \in Seq([ip : IPs, func : Starts \cup {NotFound}])

InBounds(ip, s) == s <= ip /\ ip <= endIP[s]

\* From functions listed in ascending order main.cpp:555-575 makes bounds that
\* leave no gap and no overlap: each address from the first function on is in
\* the bounds of exactly one function.
BoundsPartition ==
  phase = "lookups" /\ sorted =>
    \A ip \in 0 .. LastIP :
      (\E s \in Keys : s <= ip) =>
        /\ \E s \in Keys : InBounds(ip, s)
        /\ \A s, t \in Keys : InBounds(ip, s) /\ InBounds(ip, t) => s = t

\* Whatever the order of the functions, an access that is given to a function
\* is given to the nearest one that starts at or before it, and the accesses
\* given to none are those from the last function on (main.cpp:862-878).
NearestFunction ==
  \A i \in DOMAIN owner :
    /\ owner[i].func # NotFound =>
         /\ owner[i].func \in Keys
         /\ owner[i].func <= owner[i].ip
         /\ \A s \in Keys : s <= owner[i].ip => s <= owner[i].func
         /\ \E s \in Keys : owner[i].ip < s
    /\ owner[i].func = NotFound => \A s \in Keys : s <= owner[i].ip

\* From functions in ascending order, an access is never given to a function
\* whose printed bounds do not contain it: the lookup and the bounds, computed
\* apart (main.cpp:555-575 and 862-869), agree.
OwnerInBounds ==
  sorted => \A i \in DOMAIN owner :
              owner[i].func # NotFound => InBounds(owner[i].ip, owner[i].func)

\* For functions in ascending order: the bounds and the lookups, both together
\* (main.cpp:555-575 and 862-869).
BoundsAgree == BoundsPartition /\ OwnerInBounds

\* The last function ends at LastIP (main.cpp:574): an access within these
\* bounds is in that function.
LastFunctionFound ==
  \A i \in DOMAIN owner :
    owner[i].func = NotFound => \A s \in Keys : ~InBounds(owner[i].ip, s)
=============================================================================
