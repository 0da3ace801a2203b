------------------------------- MODULE Probes --------------------------------
(***************************************************************************)
(* The tests of the saved credentials on the Settings page                 *)
(* (lib/providerCredentials, api/integrations/providers): one request to   *)
(* the vendor or the gateway, and what its answer is taken to say about    *)
(* the key.  What the vendors answer is what the clients that use the keys *)
(* expect of them (gateway/hunter.ts, gateway/apollo.ts).  As in Rules a   *)
(* behaviour asks one question.                                            *)
(***************************************************************************)
EXTENDS Naturals

CONSTANT None

VARIABLE question

Init == question = None
-----------------------------------------------------------------------------
(* The vendors.  A key is good or not, and a service may be out of reach, limited, out of
   quota, down, or gone. *)
Moods == {"well", "unreachable", "limited", "quota", "down", "gone"}

(* What stands for every mood alike. *)
Troubled(mood) ==
    CASE mood = "unreachable" -> {"none"}
      [] mood = "down"        -> {"500", "503"}
      [] mood = "gone"        -> {"404"}
      [] OTHER                -> {}

(* Apollo answers its health check with 200 for any key, and says in the body whose it is. *)
ApolloAnswers(key, mood) ==
    Troubled(mood) \cup
    CASE mood \in {"limited", "quota"} -> {"429"}
      [] mood = "well" /\ key = "good" -> {"200 signed in"}
      [] mood = "well" /\ key # "good" -> {"200 signed out", "200 unreadable", "401", "403"}
      [] OTHER                         -> {}

(* Hunter: 401 for an invalid key, 403 at the rate limit, 429 out of quota, 400 for a
   malformed address. *)
HunterAnswers(key, mood) ==
    Troubled(mood) \cup
    CASE mood = "limited"                              -> {"403"}
      [] mood = "quota" /\ key = "good"                -> {"429"}
      [] mood = "well" /\ key = "good"                 -> {"400", "422"}
      [] mood \in {"well", "quota"} /\ key # "good"    -> {"401"}
      [] OTHER                                         -> {}

(* The gateway knows the tokens of its tenants file. *)
GatewayAnswers(key, mood) ==
    Troubled(mood) \cup
    IF mood \notin {"well", "limited", "quota"} THEN {}
    ELSE IF key = "good" THEN {"200"} ELSE {"401"}

Answers(provider, key, mood) ==
    CASE provider = "apollo" -> ApolloAnswers(key, mood)
      [] provider = "hunter" -> HunterAnswers(key, mood)
      [] OTHER               -> GatewayAnswers(key, mood)

-----------------------------------------------------------------------------
(* probeApollo. *)
ProbeApollo(answer) ==
    CASE answer = "none"           -> "vendor_unreachable"
      [] answer \in {"401", "403"} -> "vendor_auth"
      [] answer = "429"            -> "vendor_rate_limited"
      [] answer = "404"            -> "apollo_probe_unsupported"
      [] answer \in {"500", "503"} -> "vendor_unavailable"
      [] answer = "200 signed in"  -> "ok"
      [] OTHER                     -> "vendor_auth"

(* probeHunter: a malformed address is refused, and so proves the key. *)
ProbeHunter(answer) ==
    CASE answer = "none"                  -> "vendor_unreachable"
      [] answer \in {"401", "403"}        -> "vendor_auth"
      [] answer = "429"                   -> "vendor_quota_exhausted"
      [] answer \in {"200", "400", "422"} -> "ok"
      [] answer \in {"500", "503"}        -> "vendor_unavailable"
      [] OTHER                            -> "vendor_error"

(* probeGateway, with its address set and allowed or not. *)
ProbeGateway(answer, address) ==
    IF ~address \/ answer = "none" THEN "gateway_unreachable"
    ELSE CASE answer = "401" -> "gateway_http_401"
           [] answer = "404" -> "gateway_credentials_unsupported"
           [] answer = "200" -> "ok"
           [] OTHER          -> "vendor_error"

(* POST: the test of a provider. *)
Test(provider, saved, answer, address) ==
    IF ~saved THEN "provider_credential_missing"
    ELSE CASE provider = "apollo" -> ProbeApollo(answer)
           [] provider = "hunter" -> ProbeHunter(answer)
           [] OTHER               -> ProbeGateway(answer, address)

(* GET: the flags, and what the gateway holds; None when it cannot say. *)
Synced(held, answer, address) ==
    IF address /\ answer = "200" THEN "apollo" \in held \/ "hunter" \in held ELSE None

-----------------------------------------------------------------------------
AskTest ==
    /\ question = None
    /\ \E provider \in {"apollo", "hunter", "gateway"}, key \in {"good", "wrong"},
          mood \in Moods, saved, address \in BOOLEAN :
         \E answer \in Answers(provider, key, mood) :
             question' = [about |-> provider, key |-> key, mood |-> mood, saved |-> saved,
                          code |-> Test(provider, saved, answer, address)]

AskFlags ==
    /\ question = None
    /\ \E saved, held \in SUBSET {"apollo", "hunter"}, mood \in Moods, address \in BOOLEAN :
         \E answer \in GatewayAnswers("good", mood) :
             question' = [about |-> "flags", saved |-> saved, held |-> held,
                          synced |-> Synced(held, answer, address)]

vars == <<question>>
Next == AskTest \/ AskFlags
Spec == Init /\ [][Next]_vars

Tested == question # None /\ question.about # "flags"
-----------------------------------------------------------------------------
(* A test passes for a saved key that the provider knows and for no other, in whatever
   mood the provider is, and passes whenever nothing is wrong (providerCredentials.ts:152). *)
NoFalsePass ==
    Tested =>
        /\ question.code = "ok" => question.saved /\ question.key = "good"
        /\ question.code = "vendor_quota_exhausted" => question.key = "good"
        /\ question.saved /\ question.key = "good" /\ question.mood = "well"
             => question.code = "ok" \/ question.about = "gateway"

(* What the refusals seem to say, and do not: Hunter's 403 is its rate limit, and a good key
   that is limited is reported as rejected (hunter.ts:8). *)
RejectedIsWrong == Tested /\ question.code = "vendor_auth" => question.key = "wrong"

(* What the flag is said to tell (providerCredentials.ts:25), and does not: one vendor's key
   held is enough for it. *)
SyncedMeansHeld ==
    question # None /\ question.about = "flags" /\ question.synced = TRUE
        => question.saved \subseteq question.held
=============================================================================
