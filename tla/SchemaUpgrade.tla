--------------------------- MODULE SchemaUpgrade ----------------------------
(***************************************************************************)
(* What opening a store promises: the migrations take effect one by one,   *)
(* each once and in the order of their versions, and nobody works on a     *)
(* database that lacks one.  Whatever processes start, die and start again *)
(* beside each other.                                                      *)
(***************************************************************************)
EXTENDS Naturals, Sequences

CONSTANTS Procs, LastVersion

VARIABLES schema,   \* the versions that have taken effect, in order
          open      \* processes whose store is open

vars == <<schema, open>>

UpTo(k) == [i \in 1 .. k |-> i]

Init == schema \in {UpTo(k) : k \in 0 .. LastVersion} /\ open = {}

Advance ==
    /\ Len(schema) < LastVersion
    /\ schema' = Append(schema, Len(schema) + 1)
    /\ UNCHANGED open

(* A restore puts an older database where there was none. *)
Replace ==
    /\ schema = <<>> /\ open = {}
    /\ schema' \in {UpTo(k) : k \in 1 .. LastVersion}
    /\ UNCHANGED open

Open(p) ==
    /\ schema = UpTo(LastVersion)
    /\ open' = open \cup {p}
    /\ UNCHANGED schema

Close(p) ==
    /\ open' = open \ {p}
    /\ UNCHANGED schema

Next == Advance \/ Replace \/ \E p \in Procs : Open(p) \/ Close(p)

Spec == Init /\ [][Next]_vars

=============================================================================
