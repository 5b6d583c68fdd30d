----------------------------- MODULE MCQaRunner -----------------------------
(* Small instances of the QA runner for TLC. *)
EXTENDS QaRunner

\* One route stands for the thirteen and the eight assets.
MCPages == <<"route">>

\* A machine that cannot build the site, and one that cannot check types either and
\* has no git.
MCToolsets == {Tools \ {"next"}, Tools \ {"next", "tsc", "git"}}
=============================================================================
