------------------------------ MODULE LiveLog ------------------------------
(***************************************************************************)
(* The readers of a log that somebody else is still writing, as the        *)
(* realtime session and the voice pipeline have them: stream_events yields *)
(* event after event and sleeps when there is none, wait_for_completion    *)
(* sleeps until the log is done.  Both loops look, then check whether the  *)
(* log is done, and only then load the revision they will sleep on.        *)
(*                                                                         *)
(* A reader is a record, and each operator is the set of records that one  *)
(* step of it leads to: empty when it cannot take that step.  Creating the *)
(* Notified future, comparing the revision and going to sleep are one step *)
(* with loading it (LiveStream takes them apart): a change after the load  *)
(* wakes the reader, whichever of these it comes before.                   *)
(***************************************************************************)
EXTENDS Naturals

Places == {"look", "check", "load", "asleep", "ended"}
Readers(len, revs) ==
    [at : Places, next : 1..(len + 1), rev : 0..revs, waits : BOOLEAN,
     late : BOOLEAN]

(* "late" is history: what the reader waits for came after it had looked   *)
(* and before it loaded the revision.                                      *)
NewReader(waits) ==
    [at |-> IF waits THEN "check" ELSE "look", next |-> 1, rev |-> 0,
     waits |-> waits, late |-> FALSE]

(* Mutant: one index too many is taken for a recorded event.               *)
LooksTooFar(r, len) ==
    IF r.at # "look" THEN {}
    ELSE {IF r.next <= len + 1 THEN [r EXCEPT !.next = @ + 1]
          ELSE [r EXCEPT !.at = "check"]}

(* There are len events, the log is done or not, its revision is rev.      *)
Looks(r, len) ==
    IF r.at # "look" THEN {}
    ELSE {IF r.next <= len THEN [r EXCEPT !.next = @ + 1]
          ELSE [r EXCEPT !.at = "check"]}

Checks(r, done) ==
    IF r.at # "check" THEN {}
    ELSE {[r EXCEPT !.at = IF done THEN "ended" ELSE "load"]}

HasNews(r, len, done) == done \/ (~r.waits /\ r.next <= len)

Dozes(r, len, done, rev) ==
    IF r.at # "load" THEN {}
    ELSE {[r EXCEPT !.at = "asleep", !.rev = rev,
                    !.late = HasNews(r, len, done)]}

Wakes(r, rev) ==
    IF r.at # "asleep" \/ r.rev = rev THEN {}
    ELSE {[r EXCEPT !.at = IF r.waits THEN "check" ELSE "look",
                    !.late = FALSE]}

Reads(r, len, done, rev) ==
    Looks(r, len) \cup Checks(r, done) \cup Dozes(r, len, done, rev)
        \cup Wakes(r, rev)

(* A reader that sleeps though there is something for it, and that nothing *)
(* is about to wake.                                                       *)
Forgotten(r, len, done, rev) ==
    r.at = "asleep" /\ r.rev = rev /\ HasNews(r, len, done)
=============================================================================
