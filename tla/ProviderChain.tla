--------------------------- MODULE ProviderChain ---------------------------
(***************************************************************************)
(* ProviderChain.complete: one model turn asked of an ordered list of      *)
(* providers.  A transient failure is retried against the same provider,   *)
(* any infrastructure failure that is not retried falls back to the next   *)
(* provider, a configuration or semantic failure stops the chain dead.     *)
(* One action per attempt, so that what each attempt met is its own choice.*)
(*                                                                         *)
(* What an attempt meets is an HTTP status, a transport failure or a body, *)
(* up to what the adapters tell apart; Kind is what they make of it.       *)
(***************************************************************************)
EXTENDS Integers, Sequences

CONSTANTS
    Providers,  \* number of configured providers; they are tried in order
    Retries     \* transport_retries: extra attempts at the same provider

\* An HTTP error status, by one of its class: 401 stands for 403, 400 for every
\* other 4xx, 500 for every 5xx, 302 for what is no error and no answer.
Status == {"429", "402", "401", "500", "400", "302"}
Transport == {"timeout", "network", "not_json", "cut_short", "not_utf8"}
Body == {"turn", "no_turn", "unusable"}
Response == Status \cup Transport \cup Body

ASSUME ProvidersAssumption == Providers \in Nat \ {0}
ASSUME RetriesAssumption == Retries \in Nat

VARIABLES
    call,      \* where the call of complete() is
    hop,       \* the provider being tried
    try,       \* attempt_index, from 1 for each provider
    attempts   \* ProviderAttempt records of the call, oldest first

chainVars == <<call, hop, try, attempts>>

Attempt == [provider: 1 .. Providers, attempt: 1 .. Retries + 1, met: Response]

ChainTypeOK ==
    /\ call \in {"idle", "trying", "answered", "exhausted", "stopped", "raised"}
    /\ hop \in 1 .. Providers
    /\ try \in 1 .. Retries + 1
    /\ attempts \in Seq(Attempt)

ChainInit ==
    /\ call = "idle"
    /\ hop = 1
    /\ try = 1
    /\ attempts = <<>>

----------------------------------------------------------------------------
(* What an adapter makes of what it meets *)

\* Fault: every 4xx but the two about capacity and the credentials is the
\* provider's.
StatusKindLenient(s) ==
    CASE s \in {"429", "402", "302", "400"} -> "refused"
      [] s = "401" -> "configuration"
      [] s = "500" -> "transient"

\* classify_http_status.
StatusKind(s) ==
    CASE s \in {"429", "402", "302"} -> "refused"
      [] s \in {"401", "400"} -> "configuration"
      [] s = "500" -> "transient"

\* post_json.  A reply cut short (http.client.HTTPException) and one that is not
\* UTF-8 (UnicodeDecodeError) are caught nowhere.
TransportKind(t) ==
    CASE t \in {"timeout", "network"} -> "transient"
      [] t = "not_json" -> "refused"
      [] t \in {"cut_short", "not_utf8"} -> "uncaught"

\* complete and parse_response: an envelope without a turn is the provider's
\* failure.  No adapter here finds an answer unusable; the interface allows it.
BodyKind(r) ==
    CASE r = "turn" -> "success"
      [] r = "no_turn" -> "refused"
      [] r = "unusable" -> "semantic"

Kind(r) == CASE r \in Status -> StatusKind(r)
             [] r \in Transport -> TransportKind(r)
             [] r \in Body -> BodyKind(r)

----------------------------------------------------------------------------
(* One call of complete() *)

Record(r) ==
    attempts' = Append(attempts, [provider |-> hop, attempt |-> try, met |-> r])

Ask ==
    /\ call = "idle"
    /\ call' = "trying"
    /\ hop' = 1 /\ try' = 1 /\ attempts' = <<>>

Answer(r) ==
    /\ call = "trying" /\ Kind(r) = "success"
    /\ Record(r)
    /\ call' = "answered"
    /\ UNCHANGED <<hop, try>>

\* permits_transport_retry, within the bound.
RetriesAgain(r) == Kind(r) = "transient" /\ try <= Retries

\* permits_provider_fallback.
Infrastructure(r) == Kind(r) \in {"transient", "refused"}

RetrySameProvider(r) ==
    /\ call = "trying" /\ Infrastructure(r) /\ RetriesAgain(r)
    /\ Record(r)
    /\ try' = try + 1
    /\ UNCHANGED <<call, hop>>

FallBack(r) ==
    /\ call = "trying" /\ Infrastructure(r) /\ ~RetriesAgain(r) /\ hop < Providers
    /\ Record(r)
    /\ hop' = hop + 1 /\ try' = 1
    /\ UNCHANGED call

\* AllProvidersFailedError.
AllProvidersFailed(r) ==
    /\ call = "trying" /\ Infrastructure(r) /\ ~RetriesAgain(r) /\ hop = Providers
    /\ Record(r)
    /\ call' = "exhausted"
    /\ UNCHANGED <<hop, try>>

\* The error is raised as it is; another provider would hide the bug.
StopDead(r) ==
    /\ call = "trying" /\ Kind(r) \in {"configuration", "semantic"}
    /\ Record(r)
    /\ call' = "stopped"
    /\ UNCHANGED <<hop, try>>

\* An exception that is no ProviderError passes through; nothing is recorded.
PassThrough(r) ==
    /\ call = "trying" /\ Kind(r) = "uncaught"
    /\ call' = "raised"
    /\ UNCHANGED <<hop, try, attempts>>

ChainStep ==
    \E r \in Response :
        \/ Answer(r)
        \/ RetrySameProvider(r) \/ FallBack(r) \/ AllProvidersFailed(r)
        \/ StopDead(r) \/ PassThrough(r)

----------------------------------------------------------------------------
(* What a record of attempts may look like *)

\* An attempt that was followed by another met no answer, for a reason that is
\* neither our credentials nor our request: it was followed by the same
\* provider's next attempt when a moment's wait may help and the bound allowed
\* it, by the next provider's first one otherwise.
FollowsTheRule(record) ==
    \A i \in 1 .. Len(record) - 1 :
        LET a == record[i]
            b == record[i + 1]
        IN  /\ a.met \notin {"turn", "unusable", "401", "400"}
            /\ IF a.met \in {"timeout", "network", "500"} /\ a.attempt <= Retries
               THEN b.provider = a.provider /\ b.attempt = a.attempt + 1
               ELSE b.provider = a.provider + 1 /\ b.attempt = 1
=============================================================================
