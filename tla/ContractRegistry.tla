-------------------------- MODULE ContractRegistry --------------------------
(***************************************************************************)
(* ContractRegistryClient.fetch_contract (contracts/registry_client.py):   *)
(* one GET, retried with a growing pause while the failure may pass.       *)
(*                                                                         *)
(* The registry, the network and the issuer of tokens are external: an     *)
(* attempt may time out, be refused for now or for good, be answered with  *)
(* something that is not a contract, and a token has a life.               *)
(***************************************************************************)
EXTENDS Integers

CONSTANTS
    Retries,     \* values max_retries may be configured with
    BaseBackoff, \* retry_backoff_seconds
    MaxBackoff,  \* max_backoff_seconds
    TokenLife    \* the age at which the registry stops taking a token

ASSUME BackoffAssumption == BaseBackoff \in Nat /\ MaxBackoff \in Nat /\ TokenLife \in Nat
ASSUME RetriesAssumption == Retries \subseteq Int

VARIABLES
    max_retries,
    auth,        \* how the client is authenticated
    attempt,     \* number of the attempt under way
    clock,       \* time since the client was made and given its token
    answer,      \* what the last attempt came to
    fetched      \* "pending", "contract" or "raised"

registryVars == <<max_retries, auth, attempt, clock, answer, fetched>>

(* access_token, token_provider, neither: a registry that asks for none. *)
Auths == {"access_token", "token_provider", "none"}

Min2(m, n) == IF m < n THEN m ELSE n

RegistryInit ==
    /\ max_retries \in Retries
    /\ auth \in Auths
    /\ attempt = 1 /\ clock = 0
    /\ answer = "none" /\ fetched = "pending"

TotalAttempts == max_retries + 1

(* _sleep_before_retry *)
Backoff(n) == Min2(BaseBackoff * 2 ^ (n - 1), MaxBackoff)

(* Mutant: the provider is asked once, before the first attempt. *)
TokenOfTheFirstAttempt == clock

(* _request_headers: access_token is as old as the client, token_provider is *)
(* asked for a token at every attempt.                                       *)
TokenAge == IF auth = "access_token" THEN clock ELSE 0

(* A timeout, a lost connection, a status of RETRIABLE_STATUS_CODES. *)
MayPass == {"timeout", "unavailable"}

Answers ==
    MayPass \cup {"request_error"}
    \cup (IF auth = "token_provider" THEN {"no_token"} ELSE {})
    \cup (IF auth # "none" /\ TokenAge > TokenLife
          THEN {"unauthorized"} ELSE {"not_found", "not_a_contract", "contract"})

Retry ==
    /\ fetched = "pending"
    /\ attempt < TotalAttempts
    /\ answer' \in Answers \cap MayPass
    /\ clock' = clock + Backoff(attempt)
    /\ attempt' = attempt + 1
    /\ UNCHANGED <<max_retries, auth, fetched>>

(* The last attempt failed, or the failure is not one that passes: another *)
(* status, another request error, a body _parse_payload cannot read, an    *)
(* error of the token provider.                                            *)
GiveUp ==
    /\ fetched = "pending"
    /\ attempt <= TotalAttempts
    /\ answer' \in Answers \ {"contract"}
    /\ answer' \in MayPass => attempt = TotalAttempts
    /\ fetched' = "raised"
    /\ UNCHANGED <<max_retries, auth, attempt, clock>>

(* A negative max_retries: the loop has no attempt. *)
NeverAsk ==
    /\ fetched = "pending"
    /\ attempt > TotalAttempts
    /\ fetched' = "raised"
    /\ UNCHANGED <<max_retries, auth, attempt, clock, answer>>

Receive ==
    /\ fetched = "pending"
    /\ attempt <= TotalAttempts
    /\ "contract" \in Answers
    /\ answer' = "contract"
    /\ fetched' = "contract"
    /\ UNCHANGED <<max_retries, auth, attempt, clock>>

Fetch == Retry \/ GiveUp \/ NeverAsk \/ Receive

RegistrySpec == RegistryInit /\ [][Fetch]_registryVars
-----------------------------------------------------------------------------
(***************************************************************************)
(* The client gives up only when it must: after a failure that may pass,   *)
(* only when every attempt max_retries allows has been made; for its       *)
(* token, only when it was given that token and not a provider of tokens;  *)
(* without asking, only when it was configured not to ask.                 *)
(***************************************************************************)
RaisesOnlyWhenItMust ==
    fetched = "raised" =>
        /\ answer \in MayPass => attempt = max_retries + 1
        /\ answer = "unauthorized" => auth = "access_token"
        /\ attempt > max_retries + 1 => max_retries < 0 /\ answer = "none"
=============================================================================
