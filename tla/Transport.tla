----------------------------- MODULE Transport ------------------------------
(***************************************************************************)
(* One Send of a notifier: a digest is cut into messages, which are posted *)
(* one after the other (Telegram.Send, Discord.Send, Slack.Send), or goes  *)
(* out as one mail (Email.Send of internal/notify).                        *)
(*                                                                         *)
(* Only digests of as many messages as HttpPost is about are posted here;  *)
(* the others end with the cutting.                                        *)
(***************************************************************************)
EXTENDS HttpPost, MailSend, Digest

CONSTANT Digests   \* what there may be to tell

ASSUME DigestsAssumption == \A d \in Digests : d \in Seq(Block) /\ d # <<>>

VARIABLES
    via,     \* the notifier; "http" once its messages are rendered
    digest   \* the changes to tell

transportVars == <<vars, mailVars, via, digest>>

TransportInit ==
    /\ Init
    /\ MailInit
    /\ \/ via \in {"telegram", "discord", "slack"} /\ digest \in Digests
       \/ via = "mail" /\ digest = <<>>

\* The notifier's Send starts with all of its messages.
Render ==
    /\ digest # <<>>
    /\ Len(Rendered(via, digest)) = Messages
    /\ via' = "http"
    /\ digest' = <<>>
    /\ UNCHANGED <<vars, mailVars>>

PostNext == via = "http" /\ Next /\ UNCHANGED <<mailVars, via, digest>>

SendMailNext == via = "mail" /\ MailNext /\ UNCHANGED <<vars, via, digest>>

\* A digest of another number of messages.
Elsewhere == digest # <<>> /\ Len(Rendered(via, digest)) # Messages /\ UNCHANGED transportVars

TransportNext == Render \/ PostNext \/ SendMailNext \/ Elsewhere

TransportSpec == TransportInit /\ [][TransportNext]_transportVars

-----------------------------------------------------------------------------
(***************************************************************************)
(* Nothing of a digest is lost, repeated or cut off where it is cut into   *)
(* messages (pack and the functions that call it).                         *)
(***************************************************************************)
DigestsAreWhole == digest # <<>> => IsWhole(via, digest)
=============================================================================
