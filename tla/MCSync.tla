------------------------------- MODULE MCSync -------------------------------
(* Two users, two services, two workers whose tasks overlap: one of the    *)
(* pool, and a trigger that waits in the API.                              *)
EXTENDS Sync

MCUsers == <<"ann", "bob">>
MCServices == <<"gmail", "gcal">>

(* The messages of Gmail are got one by one; an event changes.             *)
MCGathered == {"gmail"}
MCEdited == {<<"ann", "gcal">>}

(* What the first listing of a task is about.                              *)
MCEditedFirst == {<<"ann", "gmail">>}
=============================================================================
