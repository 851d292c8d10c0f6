---------------------------- MODULE MailRecords -----------------------------
(***************************************************************************)
(* The tagged TXT records of mail: DKIM keys, DMARC policies, MTA-STS and  *)
(* TLS-RPT (checks/email/internal/{tags,dkim,dmarc,mtasts}, tlsrpt.go).  A *)
(* record is a sequence of tags <<name, value>>; a value is an atom, and   *)
(* the tables below say what those with an inner form hold.                *)
(***************************************************************************)
EXTENDS Integers, Sequences, FiniteSets

\* What p= of a DKIM record decodes to; any other text decodes to nothing.
PublicKeys == [rsa512 |-> [kind |-> "rsa", bits |-> 512], rsa2048 |-> [kind |-> "rsa", bits |-> 2048],
               ed25519 |-> [kind |-> "ed25519", bits |-> 256]]

\* The domains of the mailto: URIs in a list; any other text is no list.
UriLists == [own |-> {"self"}, both |-> {"self", "r1"}, web |-> {}]

Numbers == {"0", "60", "100"}
BadNames == {"", "9x"}

Value(rec, name, default) ==
    LET at == {i \in DOMAIN rec : rec[i][1] = name}
    IN  IF at = {} THEN default ELSE rec[CHOOSE i \in at : \A j \in at : i <= j][2]
Has(rec, name) == \E i \in DOMAIN rec : rec[i][1] = name

\* tags.Parse: no empty, unnamed or repeated tag; the last part may be empty.
TagsParse(rec) ==
    /\ \A i \in DOMAIN rec : rec[i][1] \notin BadNames
    /\ \A i, j \in DOMAIN rec : rec[i][1] = rec[j][1] => i = j

StartsWith(rec, version) == rec # <<>> /\ rec[1] = <<"v", version>>

-----------------------------------------------------------------------------
(* DMARC *)

Policies == {"none", "quarantine", "reject"}

IsDMARC(rec) == StartsWith(rec, "DMARC1")

\* Unknown tags are ignored; without p= there must be somewhere to report to.
dmarcParses(rec) ==
    /\ TagsParse(rec)
    /\ \A name \in {"p", "sp"} : Value(rec, name, "none") \in Policies
    /\ \A name \in {"pct", "ri"} : Value(rec, name, "0") \in Numbers
    /\ \A name \in {"rua", "ruf"} : Value(rec, name, "own") \in DOMAIN UriLists
    /\ \A name \in {"adkim", "aspf"} : Value(rec, name, "r") \in {"r", "s"}
    /\ Value(rec, "fo", "0") \in {"0", "1", "d", "s"}
    /\ Has(rec, "p") \/ Has(rec, "rua")

ReportsTo(rec, name) == IF Has(rec, name) THEN UriLists[Value(rec, name, "")] ELSE {}

-----------------------------------------------------------------------------
(* DKIM: no record, one that is invalid, a revoked key, or a key *)

\* v= is optional, so the p= tag is what identifies a key.
IsKey(rec) == IF TagsParse(rec) THEN Has(rec, "p") ELSE StartsWith(rec, "DKIM1")

NoKey(state) == [state |-> state, type |-> "", bits |-> 0]

DkimKey(rec) ==
    LET type == Value(rec, "k", "rsa")
        p == Value(rec, "p", "")
    IN  IF \/ ~TagsParse(rec) \/ ~Has(rec, "p")
           \/ \E i \in DOMAIN rec : rec[i][1] = "v" /\ (i # 1 \/ rec[i][2] # "DKIM1")
          THEN NoKey("invalid")
        ELSE IF p = "" THEN NoKey("revoked")
        ELSE IF p \notin DOMAIN PublicKeys THEN NoKey("invalid")
        ELSE IF type # PublicKeys[p].kind THEN NoKey("invalid")
        ELSE [state |-> "key", type |-> type, bits |-> PublicKeys[p].bits]

-----------------------------------------------------------------------------
(* MTA-STS and TLS-RPT.  A policy file is a sequence of its fields.        *)

IsSTS(rec) == StartsWith(rec, "STSv1")
IdFormats == {"id1", "20260101"}
stsParses(rec) == TagsParse(rec) /\ IsSTS(rec) /\ Value(rec, "id", "") \in IdFormats

Modes == {"enforce", "testing", "none"}
MXPatterns == {"m1", "m2", "*.m"}

PolicyMode(body) == Value(body, "mode", "")
PolicyMX(body) == {body[i][2] : i \in {j \in DOMAIN body : body[j][1] = "mx"}}

\* ParsePolicy: only mx may come more than once; other fields are ignored.
PolicyParses(body) ==
    /\ \A i, j \in DOMAIN body : body[i][1] = body[j][1] => i = j \/ body[i][1] = "mx"
    /\ Value(body, "version", "") = "STSv1"
    /\ PolicyMode(body) \in Modes
    /\ Value(body, "max_age", "") \in Numbers
    /\ PolicyMX(body) \subseteq MXPatterns
    /\ PolicyMode(body) = "none" \/ PolicyMX(body) # {}

\* "*.m" stands for a pattern that covers one label and so the host m2 only.
Covers(pattern, host) == pattern = host \/ (pattern = "*.m" /\ host = "m2")

IsTLSRPT(rec) == StartsWith(rec, "TLSRPTv1")
rptParses(rec) == TagsParse(rec) /\ Value(rec, "rua", "") \in DOMAIN UriLists
=============================================================================
