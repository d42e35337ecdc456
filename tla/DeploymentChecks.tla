-------------------------- MODULE DeploymentChecks --------------------------
(***************************************************************************)
(* The checks of one set of settings, none of which knows of the others:   *)
(* the gate for production (deployment_guard), the checks of the OIDC and  *)
(* the audit settings, the preflight of the real model, and the admission  *)
(* of a pilot run.                                                         *)
(*                                                                         *)
(* Settings s are a record:                                                *)
(*   s.env        development, production                                  *)
(*   s.on         the flags that are set                                   *)
(*   s.given      the texts that are not blank, environment variables too  *)
(*   s.weak       those with a placeholder, a weak password, a wildcard    *)
(*   s.https, s.localhost   the URLs with that scheme, that host (the gate *)
(*                parses a URL, the OIDC check looks at how it begins: they *)
(*                differ on texts like https:///x, which are left out)      *)
(*   s.number     the numbers                                              *)
(*   s.backend, s.storage, s.mcp, s.level, s.format                        *)
(*   s.roles (a sequence), s.role   OIDC_ALLOWED_ROLES, OIDC_DEFAULT_ROLE   *)
(*   s.provider, s.override   REAL_LLM_PROVIDER, PILOT_PROVIDER            *)
(*   s.key, s.openai_key      the variable that REAL_LLM_API_KEY_ENV names, *)
(*                            OPENAI_API_KEY: absent, blank, present       *)
(* A check returns the names of what failed.                               *)
(***************************************************************************)
EXTENDS Integers, Sequences

\* The failures among checks, each of which is a name and whether it passed.
Failing(checks) == {c[1] : c \in {d \in checks : ~d[2]}}
\* The flags of a set that are off.
Off(s, flags) == flags \ s.on
\* A text that is there and is no placeholder.
Sound(s, text) == text \in s.given /\ text \notin s.weak
\* Python's x or y.
Or(x, y) == IF x = 0 THEN y ELSE x

-----------------------------------------------------------------------------
(* The gate: run_deployment_checks.                                        *)

AccessChecks(s) ==
  Off(s, {"auth_enabled", "rbac_enabled", "security_headers_enabled"})
  \cup Failing({<<"jwt_secret", Sound(s, "jwt_secret")>>,
               <<"cors_allow_origins",
                 "cors_enabled" \in s.on => Sound(s, "cors_allow_origins")>>})

LogLevels == {"DEBUG", "INFO", "WARNING", "ERROR", "CRITICAL"}
LoggingChecks(s) ==
  Off(s, {"structured_logging_enabled", "log_redaction_enabled"})
  \cup Failing({<<"log_level_valid", s.level \in LogLevels>>,
               <<"log_level_production", s.level # "DEBUG">>})

\* validate_audit_retention_settings
ValidateRetention(s) ==
  Failing({<<"days", "audit_retention_enabled" \in s.on => s.number.days > 0>>,
          <<"rows", s.number.rows \in 1..10000>>,
          <<"format", s.format = "jsonl">>,
          <<"redaction", "audit_export_enabled" \in s.on =>
                           "audit_export_redaction_enabled" \in s.on>>})

AuditChecks(s) ==
  Off(s, {"audit_retention_enabled", "audit_export_redaction_enabled"})
  \cup Failing({<<"audit_retention_days", s.number.days > 0>>,
               <<"audit_export_max_rows", s.number.rows \in 1..10000>>,
               <<"audit_retention_settings", ValidateRetention(s) = {}>>})

\* A burst of 0 is read as -1.
TrafficChecks(s) ==
  Off(s, {"request_size_limit_enabled", "rate_limit_enabled"})
  \cup Failing({<<"request_size_limit_bytes", s.number.bytes \in 1..10485760>>,
               <<"rate_limit_requests_per_minute", s.number.rpm > 0>>,
               <<"rate_limit_burst", Or(s.number.burst, -1) >= 0>>,
               <<"rate_limit_backend_valid", s.backend \in {"memory", "redis"}>>,
               <<"rate_limit_redis_enabled",
                 s.backend = "redis" => "redis_enabled" \in s.on>>,
               <<"rate_limit_redis_url",
                 s.backend = "redis" => "redis_url" \in s.given>>})

StorageChecks(s) ==
  Failing({<<"database_url_required",
            s.storage = "postgres" => "database_url" \in s.given>>,
          <<"database_url_secret_strength",
            s.storage = "postgres" => "database_url" \notin s.given \cap s.weak>>,
          <<"redis_url_required", "redis_enabled" \in s.on => "redis_url" \in s.given>>,
          <<"redis_url_secret_strength",
            "redis_enabled" \in s.on => "redis_url" \notin s.given \cap s.weak>>})

McpTexts == {"mcp_server_command_allowlist", "mcp_tool_allowlist"}
McpChecks(s) == IF s.mcp = "real" THEN McpTexts \ s.given ELSE {}

\* The variable that real_llm_api_key_env names, without the blanks around it.
Key(s) == IF "real_llm_api_key_env" \in s.given THEN s.key ELSE "absent"
LLMChecks(s) ==
  IF "real_llm_acceptance_enabled" \notin s.on THEN {}
  ELSE ({"real_llm_model", "real_llm_api_key_env"} \ s.given)
       \cup Failing({<<"real_llm_api_key_present", Key(s) = "present">>})

AllowedRoles == {"admin", "operator", "viewer", "auditor"}
RolesOf(s) == {s.roles[i] : i \in 1..Len(s.roles)}
RoleChecks(s) ==
  Failing({<<"oidc_allowed_roles_valid", s.roles # <<>> /\ RolesOf(s) \subseteq AllowedRoles>>,
          <<"oidc_default_role_valid", s.role \in AllowedRoles \cap RolesOf(s)>>})

OIDCUrls == {"oidc_issuer_url", "oidc_redirect_uri"}
OIDCTexts == OIDCUrls \cup {"oidc_client_id", "oidc_client_secret_env"}
SecretPresent(s) == {"oidc_client_secret_env", "oidc_client_secret"} \subseteq s.given
OIDCChecks(s) ==
  IF "oidc_enabled" \notin s.on THEN {}
  ELSE RoleChecks(s) \cup (OIDCTexts \ s.given) \cup Off(s, {"oidc_require_https"})
       \cup Failing({<<"oidc_client_secret_present", SecretPresent(s)>>,
                    <<"https", "oidc_require_https" \in s.on =>
                                 OIDCUrls \cap s.given \subseteq s.https>>})

\* Outside of production there is a warning and nothing else.
DeploymentErrors(s) ==
  IF s.env # "production" THEN {}
  ELSE AccessChecks(s) \cup LoggingChecks(s) \cup AuditChecks(s) \cup TrafficChecks(s)
       \cup StorageChecks(s) \cup McpChecks(s) \cup LLMChecks(s) \cup OIDCChecks(s)

-----------------------------------------------------------------------------
(* OIDC by itself.                                                         *)

\* In development localhost needs no https.
Secure(s, url) == url \in s.https \/ (s.env = "development" /\ url \in s.localhost)

\* validate_oidc_settings
ValidateOIDC(s) ==
  RoleChecks(s)
  \cup (IF "oidc_enabled" \notin s.on THEN {}
        ELSE (OIDCTexts \ s.given)
             \cup Failing({<<"secret", "oidc_client_secret_env" \in s.given => SecretPresent(s)>>,
                          <<"https", "oidc_require_https" \in s.on =>
                              \A url \in OIDCUrls \cap s.given : Secure(s, url)>>}))

\* map_oidc_roles of the roles somebody claims: those that are allowed, or the
\* default, or the first that is allowed when the default is not.
MapRoles(s, claimed) ==
  LET known == SelectSeq(s.roles, LAMBDA role : role \in AllowedRoles)
      allowed == RolesOf(s) \cap AllowedRoles
  IN IF claimed \cap allowed # {} THEN claimed \cap allowed
     ELSE IF allowed = {} \/ s.role \in allowed THEN {s.role}
     ELSE {known[1]}

-----------------------------------------------------------------------------
(* The real model.                                                         *)

\* Faulty: does not ask for a model.
PreflightErrorsModelless(s) ==
  Failing({<<"provider", s.provider = "litellm">>, <<"key", Key(s) # "absent">>,
          <<"timeout", s.number.timeout \in 1..120>>})

\* run_llm_provider_preflight, before the network: a key of blanks will do.
PreflightErrors(s) ==
  Failing({<<"provider", s.provider = "litellm">>, <<"key", Key(s) # "absent">>,
          <<"model", "real_llm_model" \in s.given>>,
          <<"timeout", s.number.timeout \in 1..120>>})
PreflightEnabled(s) ==
  {"real_llm_acceptance_enabled", "real_llm_preflight_enabled"} \subseteq s.on
Ready(s) == PreflightEnabled(s) /\ PreflightErrors(s) = {}
Probes(s) == Ready(s) /\ "real_llm_preflight_network_check" \in s.on

\* resolve_pilot_config: what the run overrides goes first.
PilotProvider(s) == IF s.override # "none" THEN s.override ELSE s.provider
PilotHas(s, override, text) == {override, text} \cap s.given # {}
PilotKey(s) ==
  \/ (IF "real_llm_api_key_env" \in s.given THEN s.key ELSE s.openai_key) = "present"
  \/ "PILOT_API_KEY" \in s.given

\* collect_refusal_reasons
RefusalReasons(s) ==
  Off(s, {"real_llm_acceptance_enabled"})
  \cup Failing({<<"provider", PilotProvider(s) \in {"litellm", "openai_compatible"}>>,
               <<"model", PilotHas(s, "PILOT_MODEL", "real_llm_model")>>,
               <<"base_url", PilotProvider(s) = "openai_compatible" =>
                               PilotHas(s, "PILOT_BASE_URL", "real_llm_base_url")>>,
               <<"key", PilotKey(s)>>})
=============================================================================
