-------------------------------- MODULE MCWindow --------------------------------
(***************************************************************************)
(* A small instance of Window.  The window never looks at the requests it  *)
(* sent, so they are taken at once: every run of the window has a          *)
(* counterpart where they are.                                             *)
(***************************************************************************)
EXTENDS Window, TLC

CONSTANTS mail, bank, all, some

TakenAtOnce == requests # <<>> => Len(requests') < Len(requests)

\* A list of one may as well be the second best.
Lists == secrets' # {mail}

\* Nothing looks at the id of a form, so one will do.
OneForm == mode.kind = "edit" => mode.id = mail

PromptWorkerSpec ==
    WindowInit /\ [][WindowNext /\ TakenAtOnce /\ Lists]_windowVars

\* mail is the better match, but the query `some` matches bank alone.
BestFirst ==
    [list \in SUBSET Ids |-> [q \in Queries |->
        SelectSeq(<<mail, bank>>, LAMBDA id : id \in list /\ (q = all \/ id = bank))]]
=================================================================================
