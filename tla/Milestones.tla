---------------------------- MODULE Milestones ----------------------------
(***************************************************************************)
(* The milestones of the network configuration and the calculators that    *)
(* read them: packages/crypto-config/source/configuration.ts (setConfig,   *)
(* getMilestone with its cached cursor, getNextMilestoneWithNewKey),       *)
(* blockchain-utils round-calculator.ts (calculateRound) and               *)
(* timestamp-calculator.ts (calculateMinimalTimestamp).                    *)
(*                                                                         *)
(* A configuration gives some heights a milestone; a milestone may set     *)
(* roundValidators or leave it to the one before (NoKey).  The calculators *)
(* are called by consensus, the verifiers, the downloader and the state in *)
(* any order, so the cursor may be anywhere when they read it.             *)
(***************************************************************************)
EXTENDS Integers, Sequences, SequencesExt, FiniteSetsExt

CONSTANTS
    Genesis,        \* genesisBlock.block.number
    Configs,        \* the configurations given to setConfig: height -> value
    NoKey,          \* a milestone that does not set roundValidators
    MaxHeight,      \* bound: the heights asked for
    BlockTime, Timeouts, Increases,     \* timeouts of the milestone
    Rounds,         \* the rounds asked for
    RoundLimit      \* the highest round that has a timestamp (100_000)

VARIABLES
    raw,            \* config.milestones as given
    milestones,     \* #configuration.config.milestones: sorted and merged
    index,          \* #configuration.milestone.index, counted from 1
    answer          \* what the last call returned

milestoneVars == <<raw, milestones, index, answer>>

----------------------------------------------------------------------------
(* #checkRoundValidators: the milestones that set roundValidators, by      *)
(* height.  A change must come whole rounds after the entry before it;     *)
(* an entry that changes nothing is not looked at.                         *)
Setting(config) == SetToSortSeq({h \in DOMAIN config : config[h] # NoKey}, LAMBDA a, b : a < b)

CheckRoundValidators(config) ==
    LET s == Setting(config)
    IN  /\ \A h \in DOMAIN config : h > Genesis => config[h] # 0
        /\ Len(s) >= 2
        /\ s[1] = Genesis /\ config[s[1]] = 0
        /\ s[2] = Genesis + 1
        /\ \A i \in 3 .. Len(s) :
              \/ config[s[i]] = config[s[i - 1]]
              \/ (s[i] - s[i - 1]) % config[s[i - 1]] = 0

(* #buildMilestones: each milestone is merged over the one before.         *)
BuildMilestones(config) ==
    LET heights == SetToSortSeq(DOMAIN config, LAMBDA a, b : a < b)
        Merge(done, h) ==
            Append(done, [height |-> h,
                          roundValidators |-> IF config[h] = NoKey /\ done # <<>>
                                              THEN Last(done).roundValidators
                                              ELSE config[h]])
    IN  FoldLeft(Merge, <<>>, heights)

(* The two loops of getMilestone: forward from the cursor, then backward.  *)
RECURSIVE Forward(_, _, _)
Forward(ms, i, h) ==
    IF i < Len(ms) /\ h >= ms[i + 1].height THEN Forward(ms, i + 1, h) ELSE i

RECURSIVE Backward(_, _, _)
Backward(ms, i, h) == IF h < ms[i].height THEN Backward(ms, i - 1, h) ELSE i

Seek(ms, i, h) == Backward(ms, Forward(ms, i, h), h)

ValueAt(ms, i, h) == ms[Seek(ms, i, h)].roundValidators

(* getNextMilestoneWithNewKey(h, "roundValidators"): the first milestone   *)
(* after h whose value is not zero and not the one in force at h.          *)
NewKeys(ms, i, h) ==
    {m \in Range(ms) : /\ m.roundValidators # 0
                       /\ m.roundValidators # ValueAt(ms, i, h)
                       /\ m.height > h}

(* #getValidatorSpans: from the block after genesis, one span per change.  *)
(* A change that is not whole rounds after the start of its span throws.   *)
RECURSIVE SpansFrom(_, _, _, _, _)
SpansFrom(ms, i, start, round, validators) ==
    IF NewKeys(ms, i, start) = {}
    THEN [ok |-> TRUE, last |-> start,
          spans |-> <<[start |-> start, round |-> round, validators |-> validators]>>]
    ELSE LET next == CHOOSE m \in NewKeys(ms, i, start) :
                        \A n \in NewKeys(ms, i, start) : m.height <= n.height
             heights == next.height - start
         IN  IF heights % validators # 0
             THEN [ok |-> FALSE, last |-> start, spans |-> <<>>]
             ELSE LET rest == SpansFrom(ms, i, next.height, round + heights \div validators,
                                        next.roundValidators)
                  IN  [rest EXCEPT !.spans =
                          <<[start |-> start, round |-> round, validators |-> validators]>> \o @]

ValidatorSpans(ms, i) == SpansFrom(ms, i, Genesis + 1, 1, ValueAt(ms, i, Genesis + 1))

(* calculateRound within the span of the height.                           *)
RoundInNextBlock(span, h) ==
    LET into == h - span.start
        rounds == into \div span.validators
    IN  [maxValidators |-> span.validators,
         round |-> span.round + rounds,
         nextRound |-> IF into % span.validators = 0 THEN span.round + rounds + 1
                                                     ELSE span.round + rounds,
         roundHeight |-> span.start + rounds * span.validators]

RoundIn(span, h) ==
    LET into == h - span.start
        rounds == into \div span.validators
    IN  [maxValidators |-> span.validators,
         round |-> span.round + rounds,
         nextRound |-> IF (into + 1) % span.validators = 0 THEN span.round + rounds + 1
                                                           ELSE span.round + rounds,
         roundHeight |-> span.start + rounds * span.validators]

SpanOf(spans, h) == spans[Max({k \in DOMAIN spans : k = 1 \/ spans[k].start <= h})]

(* calculateMinimalTimestamp: the increases of the rounds before, summed   *)
(* in closed form.                                                         *)
MinimalTimestamp(timestamp, round, timeout, increase) ==
    LET previousRounds == IF round > 1 THEN round - 1 ELSE 0
    IN  timestamp + BlockTime + round * timeout
            + (increase * previousRounds * (previousRounds + 1)) \div 2

(* The timeout of a stage of a round (Scheduler, #getTimeout).             *)
GetTimeout(round, timeout, increase) == timeout + round * increase

----------------------------------------------------------------------------
NoAnswer == [call |-> "none"]

MilestonesInit ==
    /\ raw = <<>> /\ milestones = <<>> /\ index = 0
    /\ answer = NoAnswer

(* setConfig: a configuration that fails the check throws and changes      *)
(* nothing.                                                                *)
SetConfig ==
    /\ milestones = <<>>
    /\ \E config \in Configs :
        /\ CheckRoundValidators(config)
        /\ raw' = config
        /\ milestones' = BuildMilestones(config)
    /\ index' = 1
    /\ UNCHANGED answer

GetMilestone ==
    /\ milestones # <<>> /\ answer = NoAnswer
    /\ \E h \in Genesis .. MaxHeight :
        /\ index' = Seek(milestones, index, h)
        /\ answer' = [call |-> "milestone", at |-> h,
                      value |-> milestones[index'].roundValidators]
    /\ UNCHANGED <<raw, milestones>>

(* calculateRound: genesis is its own round; otherwise the last milestone  *)
(* read is the one at the start of the last span.                          *)
CalculateRound ==
    /\ milestones # <<>> /\ answer = NoAnswer
    /\ \E h \in Genesis .. MaxHeight :
        IF h = Genesis
        THEN /\ answer' = [call |-> "round", at |-> h,
                           value |-> [maxValidators |-> 0, round |-> 0, nextRound |-> 1,
                                      roundHeight |-> Genesis]]
             /\ UNCHANGED index
        ELSE LET s == ValidatorSpans(milestones, index)
             IN  /\ index' = Seek(milestones, index, s.last)
                 /\ answer' = IF s.ok
                              THEN [call |-> "round", at |-> h,
                                    value |-> RoundIn(SpanOf(s.spans, h), h)]
                              ELSE [call |-> "error", at |-> h]
    /\ UNCHANGED <<raw, milestones>>

(* calculateMinimalTimestamp of a round of the block after h: a round that *)
(* is too high throws; otherwise the milestone of that block is read.      *)
CalculateMinimalTimestamp ==
    /\ milestones # <<>> /\ answer = NoAnswer
    /\ \E h \in Genesis .. (MaxHeight - 1), r \in Rounds, t \in Timeouts, i \in Increases :
        IF r > RoundLimit
        THEN answer' = [call |-> "too high", at |-> r] /\ UNCHANGED index
        ELSE /\ index' = Seek(milestones, index, h + 1)
             /\ answer' = [call |-> "timestamp", at |-> r, timeout |-> t, increase |-> i,
                           value |-> MinimalTimestamp(0, r, t, i)]
    /\ UNCHANGED <<raw, milestones>>

(* The caller goes on with its answer; the cursor stays where it is.       *)
Returned ==
    /\ answer # NoAnswer
    /\ answer' = NoAnswer
    /\ UNCHANGED <<raw, milestones, index>>

MilestonesNext ==
    Returned \/ SetConfig \/ GetMilestone \/ CalculateRound \/ CalculateMinimalTimestamp

MilestonesSpec == MilestonesInit /\ [][MilestonesNext]_milestoneVars

----------------------------------------------------------------------------
(* The reference: roundValidators of a height is what the last milestone   *)
(* up to it set.                                                           *)
RefValue(h) == raw[Max({k \in DOMAIN raw : k <= h /\ raw[k] # NoKey})]

(* Rounds counted block by block: a round has as many blocks as validators *)
(* were in force at its first block; genesis is round 0.                   *)
RefRounds ==
    LET f[h \in Genesis .. (MaxHeight + 1)] ==
            IF h = Genesis THEN [round |-> 0, roundHeight |-> Genesis, maxValidators |-> 0]
            ELSE LET p == f[h - 1]
                 IN  IF h = Genesis + 1 \/ h - p.roundHeight = p.maxValidators
                     THEN [round |-> p.round + 1, roundHeight |-> h, maxValidators |-> RefValue(h)]
                     ELSE p
    IN  f

(* getMilestone returns the milestone of the height it is asked for,       *)
(* wherever earlier calls left the cursor (configuration.ts:89-97).        *)
MilestoneIsCurrent == answer.call = "milestone" => answer.value = RefValue(answer.at)

(* calculateRound agrees with counting the rounds block by block, across   *)
(* changes of the number of validators and whatever the cursor             *)
(* (round-calculator.ts:23-44); nextRound is the round of the next block.  *)
RoundsAreExact ==
    answer.call = "round" =>
        LET ref == RefRounds[answer.at]
        IN  answer.value = [maxValidators |-> ref.maxValidators, round |-> ref.round,
                            roundHeight |-> ref.roundHeight,
                            nextRound |-> RefRounds[answer.at + 1].round]

(* The minimal timestamp of a round leaves time for one stage timeout of   *)
(* every earlier round (timestamp-calculator.ts:21-27 against              *)
(* scheduler.ts:131): neither earlier, so that a round cannot be entered   *)
(* ahead of its time, nor later.                                           *)
TimestampsFollowTimeouts ==
    answer.call = "timestamp" =>
        answer.value = BlockTime +
            FoldLeft(LAMBDA sum, r : sum + GetTimeout(r - 1, answer.timeout, answer.increase),
                     0, [r \in 1 .. answer.at |-> r])

(* A configuration that setConfig accepted changes the number of           *)
(* validators only between rounds, so calculateRound never refuses it      *)
(* ("The configuration guarantees that the milestone right after genesis   *)
(* introduces a positive number of validators and that later changes land  *)
(* on round boundaries", round-calculator.ts:61).                          *)
AcceptedHaveRounds == answer.call # "error"
===========================================================================
