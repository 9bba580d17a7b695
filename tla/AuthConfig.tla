----------------------------- MODULE AuthConfig -----------------------------
(***************************************************************************)
(* AwsAuthConfig.GetAWSConfig (cmd/root.go): which credentials the source  *)
(* uses for AWS, from the strategy and the settings that are not blank.    *)
(***************************************************************************)
EXTENDS Naturals, Sequences

Fields == {"AccessKeyID", "SecretAccessKey", "ExternalID", "TargetRoleARN", "Profile"}
Strategies == {"defaults", "access-key", "external-id", "sso-profile", "other"}

(* A configuration: the fields that are set, the strategy, auto-config.    *)
Configs == [set : SUBSET Fields, strategy : Strategies, auto : BOOLEAN]

(* The checks of a strategy in the order they are made; the first that     *)
(* fails is the error returned.                                            *)
Must(f)  == [field |-> f, blank |-> FALSE]
Blank(f) == [field |-> f, blank |-> TRUE]

(* mutant: the access-key branch does not look at the profile              *)
ChecksNoProfile(strategy) ==
  CASE strategy = "access-key" ->
         <<Must("AccessKeyID"), Must("SecretAccessKey"), Blank("ExternalID"),
           Blank("TargetRoleARN")>>
    [] OTHER -> <<>>

Checks(strategy) ==
  CASE strategy = "access-key" ->
         <<Must("AccessKeyID"), Must("SecretAccessKey"), Blank("ExternalID"),
           Blank("TargetRoleARN"), Blank("Profile")>>
    [] strategy = "external-id" ->
         <<Blank("AccessKeyID"), Blank("SecretAccessKey"), Must("ExternalID"),
           Must("TargetRoleARN"), Blank("Profile")>>
    [] strategy = "sso-profile" ->
         <<Blank("AccessKeyID"), Blank("SecretAccessKey"), Blank("ExternalID"),
           Blank("TargetRoleARN"), Must("Profile")>>
    [] OTHER -> <<>>

Fails(c, check) == (check.field \in c.set) = check.blank

FailedChecks(c) ==
  {i \in DOMAIN Checks(c.strategy) : Fails(c, Checks(c.strategy)[i])}

(* What GetAWSConfig returns: an error, or the source of credentials.      *)
Credentials(c) ==
  CASE c.auto                     -> "environment"
    [] ~c.auto /\ c.strategy = "defaults" -> "environment"
    [] ~c.auto /\ c.strategy = "other"    -> "error"
    [] ~c.auto /\ c.strategy \notin {"defaults", "other"} ->
         IF FailedChecks(c) # {} THEN "error" ELSE c.strategy
=============================================================================
