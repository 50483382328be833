----------------------------------- MODULE Fetcher -----------------------------------
(***************************************************************************)
(* A fetcher (fetcher/fetcher.go): it runs its commands as one script in a *)
(* container, takes from the output what each of them has printed, and     *)
(* packs that and what a post-processor makes of it into a record.         *)
(*                                                                         *)
(* The output of a run has for each command's key the text it printed, as  *)
(* the value that can be read from it.                                     *)
(***************************************************************************)
CONSTANTS
  Failed,  \* an error instead of a result
  Nothing, \* what a command has printed that printed no line
  Bad,     \* a text that cannot be read
  Zero     \* a field that nothing was assigned to

ASSUME DistinctAssumption == Failed \notin {Nothing, Bad, Zero} /\ Nothing # Bad /\ Zero # Bad

\* CmdGroup.ExtractResult: the pattern of a key asks for at least one line, and one
\* command without a match fails the group.
ExtractResult(keys, out) ==
  IF \A k \in keys : out[k] # Nothing THEN [k \in keys |-> out[k]] ELSE Failed

\* unmarshal: a field is set from the result of its name, if there is one.
unmarshal(fields, result) ==
  [f \in fields |-> IF f \in DOMAIN result THEN result[f] ELSE Zero]

\* The entries of one map and those of another that it does not have: TLC's @@, which
\* proofs cannot expand.
Over(first, second) ==
  [k \in DOMAIN first \cup DOMAIN second |->
     IF k \in DOMAIN first THEN first[k] ELSE second[k]]

\* Fetch: what the post-processor has made of the result hides the commands' own
\* results; nothing is used when it fails, and it does not run on a result that failed.
Fetch(result, processed, fields) ==
  IF result = Failed \/ processed = Failed
  THEN Failed ELSE unmarshal(fields, Over(processed, result))
=======================================================================================
