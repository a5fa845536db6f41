--------------------------- MODULE MCGodotSession ---------------------------
(* Small surroundings: at most two executables beside the pack. *)
EXTENDS GodotSession, TLC

CONSTANTS k1, k2, k3

Exe(keys) == [ordinary |-> TRUE, keys |-> keys]
Missing == [ordinary |-> FALSE, keys |-> <<>>]

Folders == {<<Missing>>} \cup
  {<<a, b>> : a \in {Missing, Exe(<<k1, k2>>), Exe(<<k3>>)}, b \in {Exe(<<k2, k3>>), Exe(<<k1>>)}} \cup
  {<<Exe(<<k3>>), Exe(<<k3, k1>>), Exe(<<k2>>)>>}

Unencrypted ==
  {[exe |-> e, location |-> l, sealed |-> FALSE, cost |-> 0, members |-> {}, opens |-> {},
    password |-> NoKey, files |-> <<Missing>>] :
     e \in BOOLEAN, l \in {"requested", "sidecar", "nowhere"}}

\* A sealed directory that is cheap to check, that can be checked once, or that
\* is beyond the budget; or an open one with encrypted members, small or large.
Evidence ==
  {<<TRUE, 1, {4}>>, <<TRUE, 2, {}>>, <<TRUE, 4, {1, 2}>>, <<FALSE, 0, {1, 2}>>, <<FALSE, 0, {4}>>}

Encrypted ==
  {[exe |-> FALSE, location |-> "requested", sealed |-> e[1], cost |-> e[2], members |-> e[3],
    opens |-> o, password |-> p, files |-> f] :
     e \in Evidence, o \in {{k1}, {k1, k2}}, p \in {NoKey, k1, k3}, f \in Folders}

SmallSurroundings == Unencrypted \cup Encrypted
=============================================================================
