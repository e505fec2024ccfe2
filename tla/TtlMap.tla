------------------------------- MODULE TtlMap -------------------------------
(***************************************************************************)
(* What a result store promises its callers: a value found under a key is  *)
(* the one last stored there, and is never found once its time to live has *)
(* passed.  Storing under a new key may cost the map one other entry, and  *)
(* nothing else loses a live entry.                                        *)
(***************************************************************************)
EXTENDS Integers, FiniteSets

CONSTANTS MapKeys, Values, Ttls, Absent

VARIABLES
    clock,
    live,      \* the entries a Get would find: [value, expiresAt] by key
    answer     \* what the last Get reported

mapVars == <<clock, live, answer>>

MapInit ==
    /\ clock = 0
    /\ live = <<>>
    /\ answer = Absent

Sub(f, S) == [k \in S |-> f[k]]

Find(k) ==
    /\ answer' = IF k \in DOMAIN live THEN live[k].value ELSE Absent
    /\ UNCHANGED <<clock, live>>

Put(k, v, ttl) ==
    /\ ttl > 0
    /\ \E lost \in SUBSET (DOMAIN live \ {k}) :
         /\ Cardinality(lost) <= 1
         /\ k \in DOMAIN live => lost = {}
         /\ live' = [j \in (DOMAIN live \ lost) \cup {k} |->
                       IF j = k THEN [value |-> v, expiresAt |-> clock + ttl] ELSE live[j]]
    /\ UNCHANGED <<clock, answer>>

Drop(k) ==
    /\ live' = Sub(live, DOMAIN live \ {k})
    /\ UNCHANGED <<clock, answer>>

Pass ==
    /\ clock' = clock + 1
    /\ live' = Sub(live, {k \in DOMAIN live : live[k].expiresAt > clock + 1})
    /\ UNCHANGED answer

MapNext ==
    \/ \E k \in MapKeys : Find(k) \/ Drop(k)
    \/ \E k \in MapKeys, v \in Values, ttl \in Ttls : Put(k, v, ttl)
    \/ Pass

MapSpec == MapInit /\ [][MapNext]_mapVars
=============================================================================
