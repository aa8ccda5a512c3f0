---------------------------- MODULE MCTraceReader ----------------------------
(***************************************************************************)
(* Small instances of TraceReader.                                         *)
(***************************************************************************)
EXTENDS TraceReader, TLC

CONSTANTS load, near, far, const

MCAllIPs      == {load, near, far, const}
MCFoldIPs     == {near, const}
MCConstantIPs == {const}

\* A constant load that stands for two loads, and stored ones with and
\* without frame loads of their own: sums of four wrap around 4.
MCFrameLds == [ip \in IPs |-> IF ip \in {const, near} THEN 1 ELSE 0]

\* load is in the function in focus, near in another function, far in the
\* function with the highest address, that no lookup finds.
MCFuncOf == [ip \in IPs |-> IF ip = load THEN "focus"
                            ELSE IF ip = far THEN "notFound" ELSE "other"]
=============================================================================
