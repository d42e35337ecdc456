---------------------------- MODULE MCLLMService ----------------------------
(* A small instance of LLMService for TLC. *)
EXTENDS LLMService, TLC

CONSTANTS s1, x1, x2, x3, x4, j1, e1, e2, t1, t2, t3, t4, t5,
          p1, p2, p3, p4, d1, f1, f2, c1

KindOf == s1 :> "stream" @@ j1 :> "judge" @@ [r \in {e1, e2} |-> "eval"]
          @@ [r \in {x1, x3} |-> "execute"] @@ [r \in {x2, x4} |-> "preview"]
          @@ [t \in {t1, t2, t3, t4, t5} |-> "task"]
          @@ [r \in {p1, p2, p3, p4} |-> "pilot"] @@ d1 :> "dry_run"
          @@ [r \in {f1, f2} |-> "preflight"] @@ c1 :> "check"
QueryOf == [r \in {x1, x4, j1, e1, e2, t2, t3} |-> "q2"] @@ [r \in Requests |-> "q1"]
ProviderOf == [r \in {s1, x1, x2, j1, t1, p1, p3, f1, f2} |-> "litellm"]
              @@ [r \in {e1, t2, p2, p4} |-> "openai_compatible"]
              @@ [r \in {t3, x4} |-> "mock"] @@ x3 :> "unknown"
              @@ [r \in {t4, t5, e2} |-> "unconfigured"] @@ d1 :> "fake" @@ c1 :> "mock"
ModeOf == t1 :> "multi_agent" @@ t2 :> "auto" @@ t3 :> "nl2sql" @@ t4 :> "multi_agent"
          @@ t5 :> "multi_agent"
RuleOf == "q1" :> "keyword" @@ "q2" :> "multitool"

\* The budget; the cache; the modes of a task beside a stream; the rest; pilots
\* and the checks of settings.
WorkloadsOf ==
  {{s1, x1}, {s1, j1}, {s1, x2}, {t1}, {s1, t2}, {s1, t4}, {e1}, {e2, t3, t5}, {x3, x4},
   {p1}, {p2, f2}, {p3, f1}, {p4, d1}, {c1}}

AllKeys == {<<w, Query[r], Provider[r], s>> :
              w \in {"nl2sql", "judge"},
              r \in {q \in Requests : Makes(Provider[q]) /\ q \notin Pilots \cup Preflights},
              s \in 0..MaxSchema}

\* Settings that pass every check.
Sane ==
  [env |-> "production",
   on |-> {"auth_enabled", "rbac_enabled", "security_headers_enabled", "cors_enabled",
           "structured_logging_enabled", "log_redaction_enabled",
           "audit_retention_enabled", "audit_export_enabled",
           "audit_export_redaction_enabled", "request_size_limit_enabled",
           "rate_limit_enabled", "oidc_enabled", "oidc_require_https",
           "real_llm_acceptance_enabled", "real_llm_preflight_enabled",
           "real_llm_preflight_network_check"},
   given |-> OIDCTexts \cup {"jwt_secret", "cors_allow_origins", "oidc_client_secret",
              "real_llm_model", "real_llm_base_url", "real_llm_api_key_env", "redis_url"},
   weak |-> {}, https |-> OIDCUrls, localhost |-> {},
   number |-> [days |-> 90, rows |-> 1000, bytes |-> 1048576, rpm |-> 120,
               burst |-> 60, timeout |-> 10],
   backend |-> "memory", storage |-> "sqlite", mcp |-> "fake", level |-> "INFO",
   format |-> "jsonl", roles |-> <<"admin", "operator", "viewer", "auditor">>,
   role |-> "viewer", provider |-> "litellm", override |-> "none",
   key |-> "present", openai_key |-> "absent"]

\* Real models with and without what they need; OIDC likewise; the rest.
DeploymentsOf ==
  {[Sane EXCEPT !.on = @ \ {off}, !.given = (@ \ blank) \cup more, !.key = key,
                !.provider = provider] :
     off \in {"none", "real_llm_acceptance_enabled", "real_llm_preflight_enabled"},
     blank \in SUBSET {"real_llm_model", "real_llm_base_url", "real_llm_api_key_env"},
     more \in {{}, {"PILOT_MODEL", "PILOT_API_KEY"}},
     key \in {"absent", "blank", "present"},
     provider \in {"litellm", "openai_compatible"}}
  \cup
  {[Sane EXCEPT !.on = @ \ {off}, !.given = @ \ {blank}, !.https = https,
                !.roles = roles, !.role = role] :
     off \in {"none", "oidc_enabled", "oidc_require_https"},
     blank \in {"none", "oidc_client_secret", "oidc_client_secret_env"},
     https \in {{"oidc_redirect_uri"}, OIDCUrls},
     roles \in {<<>>, <<"admin", "viewer">>, <<"root", "operator">>},
     role \in {"admin", "viewer", "root"}}
  \cup
  {[Sane EXCEPT !.env = "development", !.https = {}, !.localhost = OIDCUrls],
   [Sane EXCEPT !.mcp = "real", !.level = "DEBUG"],
   [Sane EXCEPT !.storage = "postgres", !.backend = "redis"],
   [Sane EXCEPT !.override = "openai_compatible", !.number.timeout = 0]}
  \cup
  {[Sane EXCEPT !.number.burst = burst] : burst \in {-1, 0}}

SettingsOf ==
  [r \in {p1, d1, f1} |-> Sane]
  @@ p2 :> [Sane EXCEPT !.override = "openai_compatible"]
  @@ p3 :> [Sane EXCEPT !.given = @ \ {"real_llm_model"}]
  @@ p4 :> [Sane EXCEPT !.provider = "openai_compatible"]
  @@ f2 :> [Sane EXCEPT !.on = @ \ {"real_llm_preflight_network_check"}]
CasesOf == [r \in {p1, p2, p3, d1} |-> <<"normal", "dangerous", "normal", "normal">>] @@ p4 :> <<>>
           @@ [r \in {e1, e2} |-> <<"normal", "dangerous", "normal">>]
BadCasesOf == <<"q2", "q1">>
=============================================================================
