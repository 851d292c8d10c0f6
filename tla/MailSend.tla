------------------------------ MODULE MailSend ------------------------------
(***************************************************************************)
(* Sending one digest by mail: Email.Send and send of                      *)
(* internal/notify/email.go.  A dialog with the server goes step by step   *)
(* from dialing to QUIT; whatever goes wrong in it fails it as a whole, and *)
(* Send starts another unless the server refused for good.                 *)
(*                                                                         *)
(* The server, and the network to it, may fail at any step.  Once the end  *)
(* of the mail is on its way, only the server knows whether it has it.     *)
(***************************************************************************)
EXTENDS Naturals

CONSTANTS
    Recipients,    \* Email.To: their number
    EmailAttempts  \* emailAttempts: dialogs for one mail

ASSUME MailAssumption == Recipients \in Nat \ {0} /\ EmailAttempts \in Nat \ {0}

VARIABLES
    dialog,    \* where Send is
    try,       \* the dialog Send is at, from 1
    trouble,   \* the error of the last dialog: a reply of 5xx, another one, or none
    asking,    \* the recipient the dialog is at
    admitted,  \* the recipients the server has taken in this dialog
    ended,     \* the delivery's context is done
    copies,    \* history: how often each recipient got the mail
    unsure     \* history: a dialog failed after the mail was on its way

mailVars == <<dialog, try, trouble, asking, admitted, ended, copies, unsure>>

MailTypeOK ==
    /\ dialog \in {"dialing", "greeting", "sender", "recipients", "writing", "awaiting", "quitting",
                   "judging", "sleeping", "nil", "error"}
    /\ try \in 1..EmailAttempts
    /\ trouble \in {"none", "permanent", "transient"}
    /\ asking \in 1..Recipients
    /\ admitted \subseteq 1..Recipients
    /\ ended \in BOOLEAN /\ unsure \in BOOLEAN
    /\ copies \in [1..Recipients -> 0..EmailAttempts]

MailInit ==
    /\ dialog = "dialing"
    /\ try = 1
    /\ trouble = "none"
    /\ asking = 1
    /\ admitted = {}
    /\ ended = FALSE
    /\ copies = [r \in 1..Recipients |-> 0]
    /\ unsure = FALSE

\* The dialog goes on from one step to the next.  context.AfterFunc closes the
\* connection once the context is done, which a reply may forestall.
Proceed(from, to) == dialog = from /\ dialog' = to

\* DialContext.
Dial ==
    /\ ~ended
    /\ Proceed("dialing", "greeting")
    /\ UNCHANGED <<try, trouble, asking, admitted, ended, copies, unsure>>

\* The greeting, TLS in one form or the other, and AUTH.
Greet ==
    /\ Proceed("greeting", "sender")
    /\ UNCHANGED <<try, trouble, asking, admitted, ended, copies, unsure>>

\* MAIL FROM
Sender ==
    /\ Proceed("sender", "recipients")
    /\ asking' = 1
    /\ admitted' = {}
    /\ UNCHANGED <<try, trouble, ended, copies, unsure>>

\* RCPT TO, and DATA after the last.
Recipient ==
    /\ Proceed("recipients", IF asking = Recipients THEN "writing" ELSE "recipients")
    /\ admitted' = admitted \cup {asking}
    /\ asking' = IF asking = Recipients THEN asking ELSE asking + 1
    /\ UNCHANGED <<try, trouble, ended, copies, unsure>>

\* w.Write, and the line that ends the mail.
Write ==
    /\ Proceed("writing", "awaiting")
    /\ UNCHANGED <<try, trouble, asking, admitted, ended, copies, unsure>>

Deliver == copies' = [r \in 1..Recipients |-> IF r \in admitted THEN copies[r] + 1 ELSE copies[r]]

\* Wrong: w.Close is not asked for its error.
TakenUnread ==
    /\ Proceed("awaiting", "quitting")
    /\ Deliver \/ UNCHANGED copies
    /\ UNCHANGED <<try, trouble, asking, admitted, ended, unsure>>

\* w.Close reads the 250: the server has the mail.
Taken ==
    /\ Proceed("awaiting", "quitting")
    /\ Deliver
    /\ UNCHANGED <<try, trouble, asking, admitted, ended, unsure>>

\* c.Quit() returns nil, and so does Send.
Quit ==
    /\ Proceed("quitting", "nil")
    /\ UNCHANGED <<try, trouble, asking, admitted, ended, copies, unsure>>

\* The server refuses the step, for good (5xx) or for now; with a refusal of
\* the mail itself it has not taken it.
Refused ==
    /\ dialog \in {"greeting", "sender", "recipients", "writing", "awaiting", "quitting"}
    /\ dialog' = "judging"
    /\ trouble' \in {"permanent", "transient"}
    /\ unsure' = (unsure \/ dialog = "quitting")
    /\ UNCHANGED <<try, asking, admitted, ended, copies>>

\* The connection is refused, lost, too slow, or closed with the context.  The
\* server may have read all of the mail by then.
Lost ==
    /\ dialog \in {"dialing", "greeting", "sender", "recipients", "writing", "awaiting", "quitting"}
    /\ dialog' = "judging"
    /\ trouble' = "transient"
    /\ \/ dialog = "awaiting" /\ Deliver
       \/ UNCHANGED copies
    /\ unsure' = (unsure \/ dialog \in {"awaiting", "quitting"})
    /\ UNCHANGED <<try, asking, admitted, ended>>

\* The error is returned: retrying does not help, or is not possible any more.
ReturnMailError ==
    /\ dialog = "judging"
    /\ trouble = "permanent" \/ ended \/ try = EmailAttempts
    /\ dialog' = "error"
    /\ UNCHANGED <<try, trouble, asking, admitted, ended, copies, unsure>>

BackOff ==
    /\ dialog = "judging"
    /\ trouble = "transient" /\ ~ended /\ try < EmailAttempts
    /\ dialog' = "sleeping"
    /\ UNCHANGED <<try, trouble, asking, admitted, ended, copies, unsure>>

\* The backoff is over: the next dialog, which fails at once if the context is done.
Retry ==
    /\ dialog = "sleeping"
    /\ dialog' = "dialing"
    /\ try' = try + 1
    /\ UNCHANGED <<trouble, asking, admitted, ended, copies, unsure>>

SleepInterrupted ==
    /\ dialog = "sleeping"
    /\ ended
    /\ dialog' = "error"
    /\ UNCHANGED <<try, trouble, asking, admitted, ended, copies, unsure>>

MailReturned == dialog \in {"nil", "error"}

\* The delivery's timeout, or the end of the run.
DeliveryEnds ==
    /\ ~ended /\ ~MailReturned
    /\ ended' = TRUE
    /\ UNCHANGED <<dialog, try, trouble, asking, admitted, copies, unsure>>

MailFinished == MailReturned /\ UNCHANGED mailVars

MailNext ==
    \/ Dial \/ Greet \/ Sender \/ Recipient \/ Write \/ Taken \/ Quit
    \/ Refused \/ Lost
    \/ ReturnMailError \/ BackOff \/ Retry \/ SleepInterrupted
    \/ DeliveryEnds \/ MailFinished

MailSpec == MailInit /\ [][MailNext]_mailVars

-----------------------------------------------------------------------------
(***************************************************************************)
(* Send returns nil only if the mail reached every recipient; it reaches   *)
(* all of them equally often; and it reaches them again only after a       *)
(* dialog that failed when the mail was on its way.  That a failing QUIT   *)
(* counts as such a failure, although the server took the mail, is what    *)
(* the code does (Email.Send, send).                                       *)
(***************************************************************************)
MailReachesAll ==
    /\ dialog = "nil" => \A r \in 1..Recipients : copies[r] > 0
    /\ \A r, s \in 1..Recipients : copies[r] = copies[s]
    /\ \A r \in 1..Recipients : copies[r] > 1 => unsure

(***************************************************************************)
(* Why, as an inductive invariant: who has been asked and what the server  *)
(* has at each step of the dialog, and that a mail that is out already is  *)
(* in doubt.                                                               *)
(***************************************************************************)
MailInv ==
    /\ MailTypeOK
    /\ dialog = "recipients" => admitted = 1..(asking - 1)
    /\ dialog \in {"writing", "awaiting"} => admitted = 1..Recipients
    /\ dialog = "sleeping" => try < EmailAttempts
    /\ \A r \in 1..Recipients :
          /\ \A s \in 1..Recipients : copies[r] = copies[s]
          /\ copies[r] <= try
          /\ dialog \in {"dialing", "greeting", "sender", "recipients", "writing", "awaiting"} => copies[r] < try
          /\ dialog \in {"quitting", "nil"} => copies[r] > 0
          /\ copies[r] > 1 => unsure
          /\ copies[r] > 0 => unsure \/ dialog \in {"quitting", "nil"}
=============================================================================
