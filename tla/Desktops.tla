------------------------------- MODULE Desktops ------------------------------
(* What a desktop shows, as instances that share nothing but the platform: the page on which *)
(* the application is configured, and the dashboard; and what they promise.                  *)
CONSTANTS Desks, PageBudgets, BoardBudgets

VARIABLES
  desk,      \* the platform
  pageCore, page, pageReads, pageOp, pageCard, pageLeft,
  account, activity, boardCore, boardJob, board, boardMain, boardTell, boardAsked, boardLeft

CP == INSTANCE ConfigurationPage WITH
        Platforms <- Desks, Budgets <- PageBudgets, platform <- desk,
        core <- pageCore, reads <- pageReads, op <- pageOp, card <- pageCard, left <- pageLeft

DB == INSTANCE Dashboards WITH
        Platforms <- Desks, Budgets <- BoardBudgets, platform <- desk, core <- boardCore,
        job <- boardJob, page <- board, main <- boardMain, tell <- boardTell,
        asked <- boardAsked, left <- boardLeft

\* ConfigurationPage's and Dashboards's: what a user was asked is what is submitted, once, and
\* what the page says of it is so; on Windows there is one question at a time. A forced refresh
\* is not lost, and the page and the Core work with one root (app.js, main.cjs,
\* UsageViewModel.swift).
PagesSound ==
  /\ CP!TypeOK /\ CP!OutcomeIsTrue /\ CP!AsConfirmed /\ CP!SubmittedOnce /\ CP!OneQuestion
  /\ DB!TypeOK /\ DB!ForcedIsFresh /\ DB!RootsAgree

\* ConfigurationPage's and Dashboards's: what the page shows never goes back to an older
\* snapshot, and what the Core keeps of the usage never to an older reading.
NeverBack == CP!ShownNeverGoesBack /\ DB!UsageNeverGoesBack
==============================================================================
