------------------------------ MODULE Evaluation ------------------------------
(***************************************************************************)
(* One configuration and the engine that evaluates it: how a payload is    *)
(* validated and compiled, stored as child rows, read back, edited and     *)
(* compiled again (backend/app/services/flags.py), and what evaluate_flag  *)
(* of backend/app/evaluation/engine.py then serves to a subject.           *)
(*                                                                         *)
(* Who may write when is FlagStore's subject: here every change is one     *)
(* step.  A condition is a model value, and a subject is the set of the    *)
(* conditions that match it, with its hash bucket under each salt.         *)
(***************************************************************************)
EXTENDS Integers, Sequences, FiniteSets, SequencesExt

CONSTANTS
    Variation,     \* keys that may name a variation, of this flag or not
    Condition, Salt,
    Subject,       \* who may ask, in which bucket
    BucketCount,   \* 10_000 in the code
    MaxTime,       \* bound: last instant
    Payload,       \* configurations that clients send (FlagCreate, FlagUpdate)
    NewRule,       \* rules that clients add (RuleCreate)
    Scheduled      \* payloads of scheduled changes

Bucket == 0 .. (BucketCount - 1)
NoVariation == "none"

(* What the schemas let through field by field.                            *)
RolloutInput == [variation : Variation, share : Int]
ProgressiveStage == [at : Int, share : Int, variation : Variation, fallback : Variation]
RuleInput ==
    [priority : Int, when : SUBSET Condition, variation : Variation \cup {NoVariation},
     rollout : Seq(RolloutInput), stages : Seq(ProgressiveStage)]
FlagInput ==
    [enabled : BOOLEAN, default : Variation, variations : SUBSET Variation,
     rules : Seq(RuleInput), rollout : Seq(RolloutInput), stages : Seq(ProgressiveStage)]
ScheduledPayload ==
    [type : {"enable", "disable"}]
      \cup [type : {"variation"}, variation : Variation]
      \cup [type : {"rollout_percentage"}, variation : Variation, fallback : Variation,
            share : 0 .. BucketCount]

ASSUME EvaluationAssumption ==
    /\ BucketCount \in Nat \ {0} /\ MaxTime \in Nat
    /\ NoVariation \notin Variation /\ "raise" \notin Variation
    /\ Subject \subseteq [holds : SUBSET Condition, bucket : [Salt -> Bucket]]
    /\ Payload \subseteq FlagInput /\ NewRule \subseteq RuleInput
    /\ Scheduled \subseteq ScheduledPayload

VARIABLES
    rows,   \* the flag_configs row and its children, which have no order
    now     \* wall-clock time

evalvars == <<rows, now>>

-----------------------------------------------------------------------------
(* From a payload to rows.                                                 *)

(* Shares become cumulative exclusive ends.                                *)
Allocations(shares) ==
    LET upto[i \in 0 .. Len(shares)] == IF i = 0 THEN 0 ELSE upto[i - 1] + shares[i].share
    IN [i \in DOMAIN shares |-> [variation |-> shares[i].variation, end |-> upto[i]]]

CompleteRollout(shares) ==
    /\ \A i \in DOMAIN shares : shares[i].share \in 1 .. BucketCount
    /\ shares # <<>> => Last(Allocations(shares)).end = BucketCount

OneAction(rule) ==
    \/ rule.variation # NoVariation /\ rule.rollout = <<>> /\ rule.stages = <<>>
    \/ rule.variation = NoVariation /\ (rule.rollout = <<>>) # (rule.stages = <<>>)

Served(stages) ==
    {stages[i].variation : i \in DOMAIN stages} \cup {stages[i].fallback : i \in DOMAIN stages}
Allotted(shares) == {shares[i].variation : i \in DOMAIN shares}

(* Mutation: only the default and the flag's own rollout are looked up.    *)
ReferencesOfFlag(p) == {p.default} \cup Allotted(p.rollout) \cup Served(p.stages)

References(p) ==
    {p.default} \cup Allotted(p.rollout) \cup Served(p.stages)
      \cup UNION {({p.rules[i].variation} \ {NoVariation})
                    \cup Allotted(p.rules[i].rollout) \cup Served(p.rules[i].stages) :
                    i \in DOMAIN p.rules}

(* Everything that refuses a payload: the schemas, _build_configuration    *)
(* and the validators of the engine's models.                              *)
Accepted(p) ==
    /\ \A i, j \in DOMAIN p.rules : i # j => p.rules[i].priority # p.rules[j].priority
    /\ p.rollout = <<>> \/ p.stages = <<>>
    /\ CompleteRollout(p.rollout)
    /\ \A i \in DOMAIN p.rules :
         OneAction(p.rules[i]) /\ CompleteRollout(p.rules[i].rollout)
    /\ References(p) \subseteq p.variations

(* _build_configuration, with the salt the configuration has.              *)
Build(p, salt) ==
    [enabled |-> p.enabled, default |-> p.default, variations |-> p.variations,
     rules |-> [i \in DOMAIN p.rules |->
                  [p.rules[i] EXCEPT !.rollout = Allocations(@)]],
     rollout |-> Allocations(p.rollout), stages |-> p.stages, salt |-> salt]

(* _persist_children: lists become rows.                                   *)
Persist(c) ==
    [c EXCEPT !.rules = {[c.rules[i] EXCEPT !.rollout = ToSet(@), !.stages = ToSet(@)] :
                           i \in DOMAIN c.rules},
              !.rollout = ToSet(@), !.stages = ToSet(@)]

-----------------------------------------------------------------------------
(* From rows to a compiled configuration, and back to a payload.           *)

(* The elements of S by ascending key, which no two of them share.         *)
SortedBy(S, key) ==
    CHOOSE q \in SetToSeqs(S) : \A i, j \in DOMAIN q : i < j => key[q[i]] < key[q[j]]

ByEnd(allocations) == SortedBy(allocations, [a \in allocations |-> a.end])
ByPriority(rules) == SortedBy(rules, [rule \in rules |-> rule.priority])

(* compile_configuration sorts rules and allocations.  The stages come in  *)
(* the order of the SELECT, which has no ORDER BY: rank.                   *)
Compile(r, rank) ==
    [r EXCEPT !.rules = ByPriority(
                  {[rule EXCEPT !.rollout = ByEnd(@), !.stages = SortedBy(@, rank)] :
                     rule \in r.rules}),
              !.rollout = ByEnd(@), !.stages = SortedBy(@, rank)]

Stages(r) == r.stages \cup UNION {rule.stages : rule \in r.rules}
Ranks(r) ==
    {rank \in [Stages(r) -> 1 .. Cardinality(Stages(r))] :
       \A s, t \in Stages(r) : s # t => rank[s] # rank[t]}

Loads(r) == {Compile(r, rank) : rank \in Ranks(r)}

(* Mutation: every share is taken from zero.                               *)
SharesFromZero(allocations) ==
    [i \in DOMAIN allocations |->
       [variation |-> allocations[i].variation, share |-> allocations[i].end]]

(* _rollout_inputs: ends become shares again.                              *)
Shares(allocations) ==
    [i \in DOMAIN allocations |->
       [variation |-> allocations[i].variation,
        share |-> allocations[i].end - (IF i = 1 THEN 0 ELSE allocations[i - 1].end)]]

(* _update_from_configuration and _rule_input.                             *)
UpdateOf(c) ==
    [enabled |-> c.enabled, default |-> c.default, variations |-> c.variations,
     rules |-> [i \in DOMAIN c.rules |-> [c.rules[i] EXCEPT !.rollout = Shares(@)]],
     rollout |-> Shares(c.rollout), stages |-> c.stages]

(* The allocations of a percentage, none of them empty.                    *)
Split(change) ==
    LET taken == [variation |-> change.variation, share |-> change.share]
        left == [variation |-> change.fallback, share |-> BucketCount - change.share]
    IN IF change.share = 0 THEN <<left>>
       ELSE IF change.share = BucketCount THEN <<taken>> ELSE <<taken, left>>

(* _apply_payload of the scheduler.                                        *)
Edited(p, change) ==
    CASE change.type = "enable" -> [p EXCEPT !.enabled = TRUE]
      [] change.type = "disable" -> [p EXCEPT !.enabled = FALSE]
      [] change.type = "variation" ->
           [p EXCEPT !.default = change.variation, !.rollout = <<>>, !.stages = <<>>]
      [] change.type = "rollout_percentage" ->
           [p EXCEPT !.stages = <<>>, !.rollout = Split(change)]

-----------------------------------------------------------------------------
(* The engine.  "raise" is the exception of _rollout_variation.            *)

(* Mutation: the ends are inclusive.                                       *)
RolloutVariationInclusive(rollout, bucket) ==
    LET i == SelectInSeq(rollout, LAMBDA a : bucket <= a.end)
    IN IF i = 0 THEN "raise" ELSE rollout[i].variation

RolloutVariation(rollout, bucket) ==
    LET i == SelectInSeq(rollout, LAMBDA a : bucket < a.end)
    IN IF i = 0 THEN "raise" ELSE rollout[i].variation

(* Python's min and max return the first of equal elements.                *)
First(stages) ==
    stages[SelectInSeq(stages, LAMBDA s : \A u \in ToSet(stages) : s.at <= u.at)]
Current(stages, t) ==
    stages[SelectInSeq(stages, LAMBDA s :
             s.at <= t /\ \A u \in ToSet(stages) : u.at <= t => u.at <= s.at)]

(* Mutation: before the first stage its variation is served.               *)
ProgressiveVariationEarly(stages, bucket, t) ==
    IF \A s \in ToSet(stages) : s.at > t THEN First(stages).variation
    ELSE IF bucket < Current(stages, t).share
    THEN Current(stages, t).variation ELSE Current(stages, t).fallback

ProgressiveVariation(stages, bucket, t) ==
    IF \A s \in ToSet(stages) : s.at > t THEN First(stages).fallback
    ELSE IF bucket < Current(stages, t).share
    THEN Current(stages, t).variation ELSE Current(stages, t).fallback

Answer(variation, reason) == [variation |-> variation, reason |-> reason]

(* evaluate_flag.                                                          *)
Evaluate(c, s, t) ==
    LET i == SelectInSeq(c.rules, LAMBDA rule : rule.when \subseteq s.holds)
        rule == c.rules[i]
        bucket == s.bucket[c.salt]
    IN CASE ~c.enabled -> Answer(c.default, "flag_disabled")
         [] c.enabled /\ i # 0 ->
              CASE rule.variation # NoVariation ->
                     Answer(rule.variation, "targeting_match")
                [] rule.variation = NoVariation /\ rule.stages # <<>> ->
                     Answer(ProgressiveVariation(rule.stages, bucket, t),
                            "progressive_rollout")
                [] OTHER ->
                     Answer(RolloutVariation(rule.rollout, bucket), "percentage_rollout")
         [] c.enabled /\ i = 0 /\ c.stages # <<>> ->
              Answer(ProgressiveVariation(c.stages, bucket, t), "progressive_rollout")
         [] c.enabled /\ i = 0 /\ c.stages = <<>> /\ c.rollout # <<>> ->
              Answer(RolloutVariation(c.rollout, bucket), "percentage_rollout")
         [] OTHER -> Answer(c.default, "default")

-----------------------------------------------------------------------------
EvalInit ==
    /\ \E p \in Payload, salt \in Salt : Accepted(p) /\ rows = Persist(Build(p, salt))
    /\ now = 0

(* Mutation: a change draws a new salt, as a creation does.                *)
SaveResalted(p) ==
    /\ Accepted(p)
    /\ \E salt \in Salt : rows' = Persist(Build(p, salt))
    /\ UNCHANGED now

(* update_flag builds with the salt of the config row.                     *)
Save(p) ==
    /\ Accepted(p)
    /\ rows' = Persist(Build(p, rows.salt))
    /\ UNCHANGED now

Replace == \E p \in Payload : Save(p)

(* append_rule_update.                                                     *)
AddRule ==
    \E c \in Loads(rows), rule \in NewRule :
      Save([UpdateOf(c) EXCEPT !.rules = Append(@, rule)])

ApplyScheduled ==
    \E c \in Loads(rows), change \in Scheduled : Save(Edited(UpdateOf(c), change))

Tick == now < MaxTime /\ now' = now + 1 /\ UNCHANGED rows

EvalNext == Replace \/ AddRule \/ ApplyScheduled \/ Tick

EvalSpec == EvalInit /\ [][EvalNext]_evalvars

-----------------------------------------------------------------------------
(* Properties.                                                             *)

(* An accepted configuration never makes the engine raise: every bucket is *)
(* in an allocation, and what is served is one of the variations           *)
(* (engine.py:109, engine.py:132).                                         *)
NeverRaises ==
    \A c \in Loads(rows), s \in Subject :
      Evaluate(c, s, now).variation \in rows.variations

(* Storing a configuration, reading it and sending it back changes         *)
(* nothing and is never refused.  Rollbacks, added rules and scheduled     *)
(* changes rest on it: they edit what is read back.                        *)
RoundTrip ==
    \A c \in Loads(rows) :
      Accepted(UpdateOf(c)) /\ Persist(Build(UpdateOf(c), c.salt)) = rows

(* docs/EVALUATION.md:24, without loops, lists or order: the kill switch,  *)
(* then the matching rule of lowest priority, then stages, rollout and     *)
(* default of the flag.                                                    *)
Matching(s) == {rule \in rows.rules : rule.when \subseteq s.holds}
FirstRule(s) ==
    CHOOSE rule \in Matching(s) : \A r \in Matching(s) : rule.priority <= r.priority

(* docs/EVALUATION.md:42: the latest stage that is not in the future, or   *)
(* the fallback of the first.  Stages of one instant leave a choice.       *)
ByStages(stages, bucket) ==
    LET active == {st \in stages : st.at <= now}
    IN IF active = {}
       THEN {st.fallback : st \in {u \in stages : \A w \in stages : u.at <= w.at}}
       ELSE {IF bucket < st.share THEN st.variation ELSE st.fallback :
               st \in {u \in active : \A w \in active : u.at >= w.at}}

(* docs/EVALUATION.md:38: ends are exclusive and cumulative.               *)
ByRollout(rollout, bucket) ==
    {a.variation : a \in {b \in rollout : bucket < b.end
                            /\ \A d \in rollout : bucket < d.end => b.end <= d.end}}

Documented(s) ==
    LET b == s.bucket[rows.salt]
        From(variations, reason) == {Answer(v, reason) : v \in variations}
        source == IF Matching(s) = {} THEN rows ELSE FirstRule(s)
    IN IF ~rows.enabled THEN From({rows.default}, "flag_disabled")
       ELSE IF Matching(s) # {} /\ FirstRule(s).variation # NoVariation
       THEN From({FirstRule(s).variation}, "targeting_match")
       ELSE IF source.stages # {} THEN From(ByStages(source.stages, b), "progressive_rollout")
       ELSE IF source.rollout # {} THEN From(ByRollout(source.rollout, b), "percentage_rollout")
       ELSE From({rows.default}, "default")

EvaluatesAsDocumented ==
    \A c \in Loads(rows), s \in Subject : Evaluate(c, s, now) \in Documented(s)

(* The share that v has of a rollout which starts with v and serves it     *)
(* nowhere else; 0 for any other.                                          *)
Lead(r, v) ==
    LET own == {a \in r.rollout : a.variation = v}
    IN IF Cardinality(own) = 1 /\ \E a \in own : \A b \in r.rollout : a.end <= b.end
       THEN (CHOOSE a \in own : TRUE).end ELSE 0

Reaches(s, v) == \E c \in Loads(rows) : Evaluate(c, s, now).variation = v

(* README.md:61: rollout growth is monotonic.  Whatever changes the        *)
(* rollout, whoever had the growing variation by it keeps it, which needs  *)
(* stable boundaries, a stable order and a stable bucket at once.          *)
GrowthKeepsCohort ==
    [][\A v \in Variation :
         (/\ now' = now
          /\ rows.enabled /\ rows'.enabled /\ rows.rules = rows'.rules
          /\ rows.stages = {} /\ rows'.stages = {}
          /\ 0 < Lead(rows, v) /\ Lead(rows, v) <= Lead(rows', v))
         => \A s \in Subject : Reaches(s, v) => Reaches(s, v)']_evalvars

(* Stages that only raise the share of one variation over another.         *)
Growing(stages) ==
    \A s, t \in stages :
      /\ s.variation = t.variation /\ s.fallback = t.fallback /\ s.variation # s.fallback
      /\ s.at = t.at => s = t
      /\ s.at < t.at => s.share <= t.share

(* README.md:217: planned percentage growth by wall-clock time.  While     *)
(* time passes and nothing is written, a subject of a growing plan is      *)
(* never sent back to the fallback.                                        *)
TimeKeepsCohort ==
    [][(now' > now /\ Growing(rows.stages))
         => \A s \in Subject, st \in rows.stages :
              Matching(s) = {} /\ Reaches(s, st.variation) => Reaches(s, st.variation)']_evalvars

(* README.md:7: evaluation reads are deterministic.  What a subject is     *)
(* served depends on the configuration, not on the order in which the      *)
(* database happened to return its rows.                                   *)
Deterministic ==
    \A c, d \in Loads(rows), s \in Subject : Evaluate(c, s, now) = Evaluate(d, s, now)
=============================================================================
