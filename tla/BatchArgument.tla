----------------------------- MODULE BatchArgument -----------------------------
(***************************************************************************)
(* What a session of the argument system promises, whoever does the work:  *)
(* every instance of the batch is committed to before the query seed is    *)
(* revealed and never after, instances are answered only afterwards, and   *)
(* the verdict comes when all of them are answered.                        *)
(***************************************************************************)
CONSTANT Instance

VARIABLES
    committed,   \* instances whose commitment answer is final
    revealed,    \* has the seed of the queries been published?
    answered,    \* instances whose query answers are final
    verdict      \* "none" or "accepted"

absVars == <<committed, revealed, answered, verdict>>

AbsInit ==
    /\ committed = {} /\ answered = {}
    /\ revealed = FALSE
    /\ verdict = "none"

CommitTo(i) ==
    /\ ~revealed
    /\ committed' = committed \cup {i}
    /\ UNCHANGED <<revealed, answered, verdict>>

Reveal ==
    /\ ~revealed /\ committed = Instance
    /\ revealed' = TRUE
    /\ UNCHANGED <<committed, answered, verdict>>

AnswerFor(i) ==
    /\ revealed /\ verdict = "none"
    /\ answered' = answered \cup {i}
    /\ UNCHANGED <<committed, revealed, verdict>>

Accept ==
    /\ answered = Instance /\ verdict = "none"
    /\ verdict' = "accepted"
    /\ UNCHANGED <<committed, revealed, answered>>

AbsNext ==
    \/ \E i \in Instance : CommitTo(i) \/ AnswerFor(i)
    \/ Reveal \/ Accept

AbsSpec == AbsInit /\ [][AbsNext]_absVars
=============================================================================
