-------------------------------- MODULE Cards --------------------------------
(* The cards of task links, as an instance, and what they promise.                           *)
CONSTANTS CardLinks, CardAttempts, CardBudgets

VARIABLES cardLink, cardSync, cardWorker, cardHandler, logout, revoked, cardShown, cardsLeft

TC == INSTANCE TaskCards WITH
        Links <- CardLinks, MaxAttempts <- CardAttempts, Budgets <- CardBudgets,
        link <- cardLink, sync <- cardSync, worker <- cardWorker, handler <- cardHandler,
        shown <- cardShown, left <- cardsLeft

\* TaskCards's: but for a sync that skips, a mark goes only from a card that shows its link as
\* it is, that is left to a person, or that there is none of (task_card_sync.go:159).
MarksGoRightly == TC!MarksGoRightly
==============================================================================
