---------------------------- MODULE MCRedisStore ----------------------------
(***************************************************************************)
(* Two callers, two instances, two keys. The struct has a field of its     *)
(* own with omitempty, one of an embedded struct, and one without a tag.   *)
(***************************************************************************)
EXTENDS RedisStore, TLC

CONSTANTS w, r
MCCallers == {w, r}

MCFields == {"own", "emb", "key"}

Value(key, own, emb) ==
    [key |-> key, fields |-> [own |-> own, emb |-> emb, key |-> 3], embedded |-> emb # Empty]

Job(op, args) == [op |-> op, args |-> args]
Writing ==
    {Job("set", <<Value("k1", 1, 1), Value("k2", Empty, Empty), Nil>>),
     Job("set", <<Value("k1", Empty, 2)>>), Job("set", <<Nil>>),
     Job("set", <<Value("k2", 2, Empty), Value("k1", 2, Empty)>>),
     Job("del", <<"k1">>)}
Reading == {Job("get", <<"k1", "k2">>), Job("bind", <<"k2">>)}
Checking4 == {Job(k, <<>>) : k \in Checks}

MCInputs ==
    (w :> Writing)
    @@ (r :> Reading \cup Checking4 \cup {Job("set", <<Value("k1", 1, Empty)>>)})
=============================================================================
