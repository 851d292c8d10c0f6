------------------------------ MODULE Resolver ------------------------------
(***************************************************************************)
(* Choosing a resolver and asking it: setupResolver of                     *)
(* internal/cli/resolver.go, Probe of internal/dnsx/probe.go and lookup of *)
(* internal/dnsx/client.go.                                                *)
(*                                                                         *)
(* A lookup tries the servers in turn; every try is a step, and lookups    *)
(* run concurrently.  A server may fail at any time, in any way.  When it  *)
(* answers it tells the truth, except that it may withhold the records of  *)
(* some types ("Some networks answer A queries honestly while blanking     *)
(* everything else", canaryTypes).                                         *)
(***************************************************************************)
EXTENDS Naturals, Sequences

CONSTANTS
    Servers,
    Types,      \* the record types Probe asks for (canaryTypes)
    Domains,    \* the domains it asks about, each type of its own
    Own,        \* a domain that is scanned; it has records of every type
    None,
    Asked,      \* the servers the flags ask for (expandResolverSpecs)
    EncryptedChoices,  \* the servers of each of the encryptedChoices, in order
    Encrypted,  \* the servers reached over TLS or HTTPS
    Worlds      \* what each server may be withholding

ASSUME ServerAssumption ==
    /\ Asked \in Seq(Servers) /\ Asked # <<>>
    /\ EncryptedChoices \in Seq(Seq(Servers) \ {<<>>}) /\ EncryptedChoices # <<>>
    /\ Worlds \subseteq [Servers -> SUBSET Types]
    /\ Own \notin Domains /\ None \notin Domains \cup {Own}

Canaries == Types \X Domains
Scanned == Types \X {Own}
Questions == Canaries \cup Scanned

VARIABLES
    withholds,    \* the types each server withholds
    changed,      \* per type, the domain that no longer has such records, or None
    skip,         \* --skip-dns-check
    interactive,  \* a person is at the terminal
    choice,       \* the servers in use: 0 as asked, or which of the choices
    at,           \* the server each lookup is at
    res,          \* what each lookup came back with
    stage,        \* where setupResolver is; "scanning" once it returned a resolver
    tampered,     \* ProbeError.Tampered
    interrupted   \* the context is done

world == <<withholds, changed, skip, interactive>>
resolverVars == <<world, choice, at, res, stage, tampered, interrupted>>

Results == {"none", "records", "empty", "failed"}
InUse == IF choice = 0 THEN Asked ELSE EncryptedChoices[choice]
Used == {InUse[i] : i \in DOMAIN InUse}

ResolverTypeOK ==
    /\ withholds \in Worlds
    /\ changed \in [Types -> Domains \cup {None}]
    /\ skip \in BOOLEAN /\ interactive \in BOOLEAN
    /\ choice \in 0..Len(EncryptedChoices)
    /\ at \in [Questions -> Nat] /\ \A q \in Questions : at[q] \in DOMAIN InUse
    /\ res \in [Questions -> Results]
    /\ stage \in {"probing", "rejected", "asking", "scanning", "refused"}
    /\ tampered \in BOOLEAN /\ interrupted \in BOOLEAN

Fresh ==
    /\ at' = [q \in Questions |-> 1]
    /\ res' = [q \in Questions |-> "none"]

ResolverInit ==
    /\ withholds \in Worlds
    /\ changed \in [Types -> Domains \cup {None}]
    /\ skip \in BOOLEAN /\ interactive \in BOOLEAN
    /\ choice = 0
    /\ at = [q \in Questions |-> 1]
    /\ res = [q \in Questions |-> "none"]
    /\ stage = IF skip THEN "scanning" ELSE "probing"
    /\ tampered = FALSE
    /\ interrupted = FALSE

-----------------------------------------------------------------------------
(* lookup *)

UnderWay(q) ==
    /\ res[q] = "none"
    /\ q \in IF stage = "probing" THEN Canaries ELSE IF stage = "scanning" THEN Scanned ELSE {}

\* What a server that answers says: NOERROR with records of the type, or
\* without (NXDOMAIN is no different to Probe and to a check).
Says(s, q) == IF q[1] \in withholds[s] \/ changed[q[1]] = q[2] THEN "empty" ELSE "records"

Answered(q) ==
    /\ UnderWay(q)
    /\ ~interrupted
    /\ res' = [res EXCEPT ![q] = Says(InUse[at[q]], q)]
    /\ UNCHANGED <<world, choice, at, stage, tampered, interrupted>>

\* Wrong: a server that answers with any other code counts as an answer
\* without records.
TryNextUnlessAnswered(q) ==
    /\ UnderWay(q)
    /\ ~interrupted
    /\ \/ at[q] < Len(InUse) /\ at' = [at EXCEPT ![q] = @ + 1] /\ UNCHANGED res
       \/ res' = [res EXCEPT ![q] = "empty"] /\ UNCHANGED at
    /\ UNCHANGED <<world, choice, stage, tampered, interrupted>>

\* An error, or an rcode other than NOERROR and NXDOMAIN: the next server is
\* tried; after the last one the lookup fails.
TryNext(q) ==
    /\ UnderWay(q)
    /\ ~interrupted
    /\ IF at[q] < Len(InUse)
       THEN at' = [at EXCEPT ![q] = @ + 1] /\ UNCHANGED res
       ELSE res' = [res EXCEPT ![q] = "failed"] /\ UNCHANGED at
    /\ UNCHANGED <<world, choice, stage, tampered, interrupted>>

\* if ctx.Err() != nil { break }
Break(q) ==
    /\ UnderWay(q)
    /\ interrupted
    /\ res' = [res EXCEPT ![q] = "failed"]
    /\ UNCHANGED <<world, choice, at, stage, tampered, interrupted>>

\* Another check asks the same.
AskAgain(q) ==
    /\ stage = "scanning"
    /\ q \in Scanned
    /\ res[q] # "none"
    /\ at' = [at EXCEPT ![q] = 1]
    /\ res' = [res EXCEPT ![q] = "none"]
    /\ UNCHANGED <<world, choice, stage, tampered, interrupted>>

-----------------------------------------------------------------------------
(* Probe *)

Served(t) == \E d \in Domains : res[<<t, d>>] = "records"
AnsweredEmpty(t) == \E d \in Domains : res[<<t, d>>] = "empty"

\* Wrong: the servers pass if any type is answered.
PassesOnOne == \E t \in Types : Served(t)

\* Wrong: every domain must answer.
PassesOnAll == \A q \in Canaries : res[q] = "records"

Passes == \A t \in Types : Served(t)

Withheld == \E t \in Types : ~Served(t) /\ AnsweredEmpty(t)

\* All lookups are back: wg.Wait, then the verdict.
JudgeProbe ==
    /\ stage = "probing"
    /\ \A q \in Canaries : res[q] # "none"
    /\ stage' = IF interrupted THEN "refused" ELSE IF Passes THEN "scanning" ELSE "rejected"
    /\ tampered' = (~interrupted /\ ~Passes /\ Withheld)
    /\ UNCHANGED <<world, choice, at, res, interrupted>>

-----------------------------------------------------------------------------
(* setupResolver *)

AllEncrypted == \A i \in DOMAIN Asked : Asked[i] \in Encrypted

Refuse ==
    /\ stage = "rejected"
    /\ IF choice = 0 THEN AllEncrypted \/ ~interactive ELSE choice = Len(EncryptedChoices)
    /\ stage' = "refused"
    /\ UNCHANGED <<world, choice, at, res, tampered, interrupted>>

Ask ==
    /\ stage = "rejected"
    /\ choice = 0
    /\ interactive /\ ~AllEncrypted
    /\ stage' = "asking"
    /\ UNCHANGED <<world, choice, at, res, tampered, interrupted>>

\* "scan aborted", or the input ended.
SayNo ==
    /\ stage = "asking"
    /\ stage' = "refused"
    /\ UNCHANGED <<world, choice, at, res, tampered, interrupted>>

\* The person agrees to encrypted DNS, or the choice before failed too.
TryChoice ==
    /\ stage = "asking" \/ (stage = "rejected" /\ choice > 0)
    /\ choice < Len(EncryptedChoices)
    /\ choice' = choice + 1
    /\ stage' = "probing"
    /\ Fresh
    /\ UNCHANGED <<world, tampered, interrupted>>

\* A signal, or the end of the run.
End ==
    /\ ~interrupted
    /\ interrupted' = TRUE
    /\ UNCHANGED <<world, choice, at, res, stage, tampered>>

Over == stage = "refused" /\ UNCHANGED resolverVars

Lookup == \E q \in Questions : Answered(q) \/ TryNext(q) \/ Break(q)

Setup == Lookup \/ JudgeProbe \/ Refuse \/ Ask \/ TryChoice

ResolverNext == Setup \/ SayNo \/ End \/ Over \/ \E q \in Scanned : AskAgain(q)

ResolverSpec == ResolverInit /\ [][ResolverNext]_resolverVars

-----------------------------------------------------------------------------
(***************************************************************************)
(* A record that exists is never reported missing because servers fail,    *)
(* however they fail and whenever the context ends: only a server that     *)
(* withholds it can do that ("the latter must never produce a finding",    *)
(* Resolver).                                                              *)
(***************************************************************************)
FailureIsNotAbsence ==
    \A t \in Types :
        (\A s \in Used : t \notin withholds[s]) =>
            \A q \in {<<t, Own>>} \cup {c \in Canaries : c[1] = t /\ changed[t] # c[2]} :
                res[q] # "empty"

(***************************************************************************)
(* No scan goes through servers that all withhold a type of record, unless *)
(* the check was skipped: "Seta never scans through one silently"          *)
(* (setupResolver).                                                        *)
(***************************************************************************)
WithholdingIsNoticed ==
    stage = "scanning" /\ ~skip =>
        \A t \in Types : \E s \in Used : t \notin withholds[s]

(***************************************************************************)
(* Honest servers are turned away only if they failed: "a single domain    *)
(* changing its setup can't break the check" (signedZones), and they are   *)
(* accused of withholding only for such a domain.                          *)
(***************************************************************************)
VerdictIsFair ==
    stage = "rejected" /\ (\A s \in Used : withholds[s] = {}) =>
        /\ \E t \in Types : \A d \in Domains : d # changed[t] => res[<<t, d>>] = "failed"
        /\ tampered => \E t \in Types : changed[t] # None

(***************************************************************************)
(* Why these hold, as an inductive invariant: records come from a server   *)
(* in use that does not withhold them, an answer without them from one     *)
(* that does or for a domain that has none, and a scan only follows a      *)
(* probe that was served every type.                                       *)
(***************************************************************************)
ResultInv(q) ==
    /\ res[q] = "records" => \E s \in Used : q[1] \notin withholds[s]
    /\ res[q] = "empty" => changed[q[1]] = q[2] \/ \E s \in Used : q[1] \in withholds[s]

ResolverInv ==
    /\ ResolverTypeOK
    /\ \A q \in Questions : ResultInv(q)
    /\ stage = "rejected" =>
          /\ \A q \in Canaries : res[q] # "none"
          /\ ~Passes
          /\ tampered => Withheld
    /\ WithholdingIsNoticed
=============================================================================
