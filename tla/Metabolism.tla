--------------------------------- MODULE Metabolism ---------------------------------
(***************************************************************************)
(* What keeps the agent alive: energy and age (crabclaw/sapiens/           *)
(* physiology.py), the drives (components/needs.py), credits on a ledger   *)
(* kept by another service (sociology.py), and the actions the life loop   *)
(* takes when no message is answered (components/action.py, loop.py).      *)
(* Every action costs energy; energy is bought with credits; out of energy *)
(* the life loop ends for good.                                            *)
(*                                                                         *)
(* The scores of possible actions are not computed: any of those proposed  *)
(* may be best, or none of them good enough.  Satiety goes with energy and *)
(* nothing reads it.  Health, emotions, memories and reflections only      *)
(* change scores.  Proposals to other agents are never made: the only      *)
(* partner the agent has a model of is the "community", no registered one. *)
(***************************************************************************)
EXTENDS Integers, FiniteSets

CONSTANTS
  EnergyMax, TimeDecay, ActionCost,   \* MetabolismEngine
  HungryBelow, RechargeAmount,
  RechargeCost, Wage,                 \* 5.0 and 10.0 credits
  ConfidenceMax,                      \* in steps of a success; a failure is two
  FallbackCredits,                    \* what the agent believes to have before it asks: 100.0
  MaxBalance                          \* bound on the agent's account

ASSUME MetabolismAssumption ==
  /\ {EnergyMax, TimeDecay, ActionCost, RechargeAmount, ConfidenceMax} \subseteq Nat \ {0}
  /\ {HungryBelow, RechargeCost, Wage, FallbackCredits, MaxBalance} \subseteq Nat

VARIABLES
  living,       \* "tick", "act" or "ended": where the life loop is
  energy,
  drives,       \* the needs below 0.4, but for energy
  lonely,       \* whether the last interaction is more than 20 ticks ago
  confidence,   \* SelfModel.state["confidence"]
  strategy,     \* MetaCognition._pending_strategy_signal
  focus,        \* what the tick selected
  credits,      \* SocialManager._fallback_credits, the last balance heard of
  balance       \* the ledger's

bodyVars == <<living, energy, drives, lonely, confidence, strategy, focus, credits, balance>>

AtMost(bound, n) == IF n > bound THEN bound ELSE n
AtLeast(bound, n) == IF n < bound THEN bound ELSE n

(* NeedsEngine.__init__: achievement starts below 0.4.  What the agent     *)
(* believes to have has nothing to do with the ledger before it asks.      *)
BodyInit ==
  /\ living = "tick" /\ energy = EnergyMax
  /\ drives = {"achievement"} /\ lonely = FALSE
  /\ confidence = (ConfidenceMax * 7) \div 10 /\ strategy = FALSE /\ focus = {}
  /\ credits = FallbackCredits /\ balance \in 0..MaxBalance

-----------------------------------------------------------------------------
(* The ledger, a service: a request is answered, or fails on the way there *)
(* or on the way back; in the last case it has been carried out.           *)
Answers == {"answered", "refused", "lost"}
Queries == {"answered", "lost"}
Done(answer) == answer # "refused"

(* get_credits: without an answer, the last balance heard of.              *)
Heard(answer, amount) == IF answer = "answered" THEN amount ELSE credits

(* Others pay the agent, or it pays with its tools.                        *)
MoveCredits(amount) ==
  /\ amount \in 0..MaxBalance /\ amount # balance
  /\ balance' = amount
  /\ UNCHANGED <<living, energy, drives, lonely, confidence, strategy, focus, credits>>

-----------------------------------------------------------------------------
(* The first half of a tick.  Needs only decay, nothing satisfies them;    *)
(* of the signals the three most intense are the focus: hunger is one of   *)
(* them unless three others are more intense.                              *)
Hunger(e) == IF e < HungryBelow THEN {"hunger"} ELSE {}
Contact(alone) == IF alone THEN {"contact"} ELSE {}
Strategy == IF strategy THEN {"strategy"} ELSE {}

Capacity == 3

Felt(e, needs, alone) == Hunger(e) \cup needs \cup Contact(alone) \cup Strategy

Live(grown, alone, answer, selected) ==
  /\ living = "tick" /\ energy > TimeDecay
  /\ energy' = energy - TimeDecay
  /\ drives' = drives \cup grown
  /\ lonely' = alone
  /\ credits' = Heard(answer, balance)
  /\ focus' = selected
  /\ Cardinality(selected) <= Capacity
  /\ Hunger(energy') \subseteq selected \/ Cardinality(selected) = Capacity
  /\ strategy' = FALSE
  /\ living' = "act"
  /\ UNCHANGED <<confidence, balance>>

\* is_alive: the loop ends, nothing starts it again.
RunOut ==
  /\ living = "tick" /\ energy <= TimeDecay
  /\ energy' = 0
  /\ living' = "ended"
  /\ UNCHANGED <<drives, lonely, confidence, strategy, focus, credits, balance>>

-----------------------------------------------------------------------------
(* The second half: choose_action, execute, and what is learned from the   *)
(* outcome.  A hungry agent does nothing but recharge.                     *)
Outcome(success) ==
  /\ confidence' = IF success THEN AtMost(ConfidenceMax, confidence + 1) ELSE AtLeast(0, confidence - 2)
  /\ strategy' = ~success
  /\ living' = "tick"
  /\ focus' = {}

Tired == AtLeast(0, energy - ActionCost)

Deliberate(signal) == living = "act" /\ signal \in focus /\ "hunger" \notin focus /\ confidence > 0

\* spend_credits and transfer_credits.
Affords(known) == known >= RechargeCost
Settles(payment) == Done(payment) /\ balance >= RechargeCost

\* record_action_cost, then spend_credits: the balance is asked for, and when it
\* is enough the cost is paid; the ledger's answer tells the new balance, which is
\* asked for again.  Then the station may be busy.
Recharge(first, payment, free) ==
  /\ living = "act" /\ "hunger" \in focus
  /\ LET known == Heard(first, balance)
         pays == Affords(known) /\ Settles(payment)
         paid == pays /\ payment = "answered"
     IN /\ balance' = IF pays THEN balance - RechargeCost ELSE balance
        /\ credits' = IF paid THEN balance' ELSE known
        /\ energy' = IF paid /\ free THEN AtMost(EnergyMax, Tired + RechargeAmount) ELSE Tired
        /\ Outcome(paid /\ free)
  /\ UNCHANGED <<drives, lonely>>

\* find_work: whoever is found pays the wage.
Earned(payment) == IF Done(payment) THEN balance + Wage ELSE balance

\* After the work the balance is asked for.
WorkForCredits(payment, refresh) ==
  /\ Deliberate("achievement")
  /\ Done(payment) => balance + Wage <= MaxBalance
  /\ balance' = Earned(payment)
  /\ credits' = Heard(refresh, balance')
  /\ energy' = Tired
  /\ Outcome(payment = "answered")
  /\ UNCHANGED <<drives, lonely>>

SocialInteraction ==
  /\ Deliberate("social")
  /\ lonely' = FALSE
  /\ energy' = Tired
  /\ Outcome(TRUE)
  /\ UNCHANGED <<drives, credits, balance>>

ExploreEnvironment(finds) ==
  /\ Deliberate("curiosity")
  /\ energy' = Tired
  /\ Outcome(finds)
  /\ UNCHANGED <<drives, lonely, credits, balance>>

SafeMode ==
  /\ Deliberate("strategy")
  /\ energy' = Tired
  /\ Outcome(TRUE)
  /\ UNCHANGED <<drives, lonely, credits, balance>>

\* A message was answered, or nothing was good enough.
NoAction ==
  /\ living = "act" /\ "hunger" \notin focus
  /\ living' = "tick" /\ focus' = {}
  /\ UNCHANGED <<energy, drives, lonely, confidence, strategy, credits, balance>>

-----------------------------------------------------------------------------
BodyNext ==
  \/ \E grown \in SUBSET ({"social", "curiosity"} \ drives), alone \in {lonely, TRUE}, answer \in Queries :
       \E selected \in SUBSET Felt(energy - TimeDecay, drives \cup grown, alone) :
         Live(grown, alone, answer, selected)
  \/ RunOut
  \/ \E first \in Queries, payment \in Answers, free \in BOOLEAN : Recharge(first, payment, free)
  \/ \E payment \in Answers, refresh \in Queries : WorkForCredits(payment, refresh)
  \/ SocialInteraction \/ SafeMode \/ NoAction
  \/ \E finds \in BOOLEAN : ExploreEnvironment(finds)
  \/ \E amount \in 0..MaxBalance : MoveCredits(amount)

BodySpec == BodyInit /\ [][BodyNext]_bodyVars

-----------------------------------------------------------------------------
\* The variables keep their types.
BodyTypeOK ==
  /\ living \in {"tick", "act", "ended"} /\ energy \in 0..EnergyMax
  /\ drives \subseteq {"achievement", "social", "curiosity"}
  /\ focus \subseteq {"hunger", "achievement", "social", "curiosity", "contact", "strategy"}
  /\ {lonely, strategy} \subseteq BOOLEAN
  /\ confidence \in 0..ConfidenceMax
  /\ balance \in 0..MaxBalance /\ credits \in 0..MaxBalance \cup {FallbackCredits}
=============================================================================
