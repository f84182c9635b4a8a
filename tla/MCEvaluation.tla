---- MODULE MCEvaluation ----
(* Four buckets; a subject in every bucket under salt x, moved by two      *)
(* under salt y, with every set of matching conditions.                    *)
EXTENDS Evaluation
CONSTANTS on, off, other, x, y, p, q

Subjects ==
    {[holds |-> h, bucket |-> [salt \in Salt |-> IF salt = x THEN b ELSE (b + 2) % 4]] :
       h \in SUBSET Condition, b \in 0 .. 3}

Share(v, n) == [variation |-> v, share |-> n]
Stage(at, n) == [at |-> at, share |-> n, variation |-> on, fallback |-> off]
Config(enabled, rules, rollout, stages) ==
    [enabled |-> enabled, default |-> off, variations |-> {on, off},
     rules |-> rules, rollout |-> rollout, stages |-> stages]
Rule(n, when, v, rollout, stages) ==
    [priority |-> n, when |-> when, variation |-> v, rollout |-> rollout, stages |-> stages]

(* Complete rollouts, and two that are not.                                *)
Rollouts == {<<>>, <<Share(on, 4)>>, <<Share(off, 3)>>, <<Share(on, 3), Share(off, 3)>>,
             <<Share(on, 1), Share(off, 2), Share(on, 1)>>}
              \cup {<<Share(v, n), Share(w, 4 - n)>> : v, w \in {on, off}, n \in 1 .. 3}
Plans == {<<Stage(1, m), Stage(2, n)>> : m, n \in 0 .. 4}
Ties == {<<Stage(1, m), Stage(1, n)>> : m, n \in {0, 2, 4}}
Rules == {Rule(n, {cond}, on, <<>>, <<>>) : n \in {0, 1}, cond \in Condition}
           \cup {Rule(0, {}, NoVariation, <<Share(on, 2), Share(off, 2)>>, <<>>),
                 Rule(1, {p}, NoVariation, <<>>, <<Stage(1, 2)>>),
                 Rule(1, {q}, other, <<>>, <<>>),
                 Rule(0, {q}, on, <<Share(on, 4)>>, <<>>)}
Percentages == {[type |-> "rollout_percentage", variation |-> on, fallback |-> off,
                 share |-> n] : n \in 0 .. 4}
Others == {[type |-> "enable"], [type |-> "disable"], [type |-> "variation", variation |-> on]}

RolloutPayloads == {Config(TRUE, <<>>, r, <<>>) : r \in Rollouts}
                     \cup {Config(TRUE, <<>>, <<>>, plan) : plan \in Plans}
RulePayloads == {Config(e, <<r, s>>, rollout, <<>>) :
                   e \in BOOLEAN, r, s \in Rules,
                   rollout \in {<<>>, <<Share(on, 1), Share(off, 3)>>}}
                  \cup {Config(e, <<r>>, <<>>, <<Stage(1, 1), Stage(2, 3)>>) :
                          e \in BOOLEAN, r \in Rules}
AllPayloads == RolloutPayloads \cup RulePayloads
TiedPayloads == {Config(TRUE, <<>>, <<>>, plan) : plan \in Ties}
AllChanges == Percentages \cup Others
NoRules == {}
====
