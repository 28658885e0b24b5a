---------------------------- MODULE MCSidebandPath ----------------------------
(***************************************************************************)
(* Instances of SidebandPath: what the two sources send.                   *)
(***************************************************************************)
EXTENDS SidebandPath

Nums == 1..3

Packets == [src: Source, cls: Classes, to: {"here", "below"}, num: Nums]

msg(s, to, n) == [src |-> s, cls |-> "message", to |-> to, num |-> n]
request(s, to, n) == [src |-> s, cls |-> "request", to |-> to, num |-> n]
completion(s, to, n) == [src |-> s, cls |-> "complete", to |-> to, num |-> n]

\* Three messages passing through use up the credits; packets of all classes
\* with both addresses; completions that fill their queue.  The layer of the
\* channel sends at the same time.
Sending ==
  {[layer |-> l, inner |-> i] :
     l \in {<<msg("layer", "below", 1), msg("layer", "below", 2), msg("layer", "below", 3)>>,
            <<request("layer", "below", 1), msg("layer", "here", 2), completion("layer", "below", 3)>>,
            <<completion("layer", "below", 1), completion("layer", "below", 2)>>},
     i \in {<<msg("inner", "below", 1)>>,
            <<request("inner", "below", 1), completion("inner", "below", 2)>>}}
===============================================================================
