---------------------------- MODULE Integrations ----------------------------
(***************************************************************************)
(* What a stored credential means: the settings an activity of a run gets  *)
(* from it, with the environment where it has none, the state of the       *)
(* integration shown to the user, the form that edits it, and what is      *)
(* seeded from the environment.                                            *)
(*                                                                         *)
(* A credential has two parts, config and secrets, that map keys to values *)
(* or None.  A value says who wrote it, for which provider, and whether it *)
(* passes the format check of its setting.  The SMTP port and security,    *)
(* impersonation, labels and details are left out.                         *)
(***************************************************************************)
EXTENDS Integers, Sequences, FiniteSets

CONSTANT None

Providers == {"stripe", "twilio", "kyc", "notifications", "google_sheets"}
Values == [by : Nat, for : Providers, ok : BOOLEAN]
Value(by, for, ok) == [by |-> by, for |-> for, ok |-> ok]
Good(v) == v # None /\ v.ok

(* the keys of the two parts *)
ConfigNames ==
  {"stripeSecretKey", "accountSid", "authToken", "fromNumber", "twilioFromNumber", "providerUrl", "providerToken",
   "sendgridApiKey", "emailFrom", "from", "smtpHost", "smtpUser", "slackWebhookUrl", "authType",
   "connectedEmail"}
SecretNames ==
  {"stripeSecretKey", "secretKey", "accountSid", "twilioAccountSid", "authToken", "twilioAuthToken",
   "providerUrl", "providerToken", "token", "sendgridApiKey", "apiKey", "smtpHost", "smtpUser", "smtpPass",
   "smtpPassword", "slackWebhookUrl", "refreshToken", "refresh_token", "serviceAccountJson",
   "service_account_json", "googleServiceAccountJson", "clientEmail", "client_email", "privateKey",
   "private_key"}
Configs == [ConfigNames -> Values \cup {None}]
Secrets == [SecretNames -> Values \cup {None}]
NoConfig == [k \in ConfigNames |-> None]
NoSecrets == [k \in SecretNames |-> None]
NoCredential == [config |-> NoConfig, secrets |-> NoSecrets]

-----------------------------------------------------------------------------
(* Where a setting is looked for in the credential of its provider. *)
Sec(key) == [place |-> "secrets", key |-> key]
Cfg(key) == [place |-> "config", key |-> key]

Places ==
  [stripeSecretKey |-> <<Sec("stripeSecretKey"), Sec("secretKey"), Cfg("stripeSecretKey")>>,
   accountSid |-> <<Sec("accountSid"), Sec("twilioAccountSid"), Cfg("accountSid")>>,
   authToken |-> <<Sec("authToken"), Sec("twilioAuthToken"), Cfg("authToken")>>,
   fromNumber |-> <<Cfg("fromNumber"), Cfg("twilioFromNumber")>>,
   providerUrl |-> <<Sec("providerUrl"), Cfg("providerUrl")>>,
   providerToken |-> <<Sec("providerToken"), Sec("token"), Cfg("providerToken")>>,
   sendgridApiKey |-> <<Sec("sendgridApiKey"), Sec("apiKey"), Cfg("sendgridApiKey")>>,
   emailFrom |-> <<Cfg("emailFrom"), Cfg("from")>>,
   smtpHost |-> <<Cfg("smtpHost"), Sec("smtpHost")>>,
   smtpUser |-> <<Sec("smtpUser"), Cfg("smtpUser")>>,
   smtpPass |-> <<Sec("smtpPass"), Sec("smtpPassword")>>,
   slackWebhookUrl |-> <<Sec("slackWebhookUrl"), Cfg("slackWebhookUrl")>>,
   authType |-> <<Cfg("authType")>>,
   refreshToken |-> <<Sec("refreshToken"), Sec("refresh_token")>>,
   serviceAccountJson |-> <<Sec("serviceAccountJson"), Sec("service_account_json"),
                            Sec("googleServiceAccountJson")>>,
   clientEmail |-> <<Sec("clientEmail"), Sec("client_email")>>,
   privateKey |-> <<Sec("privateKey"), Sec("private_key")>>]

Settings ==
  [stripe |-> {"stripeSecretKey"},
   twilio |-> {"accountSid", "authToken", "fromNumber"},
   kyc |-> {"providerUrl", "providerToken"},
   notifications |-> {"sendgridApiKey", "emailFrom", "smtpHost", "smtpUser", "smtpPass", "slackWebhookUrl"},
   google_sheets |-> {"authType", "refreshToken", "serviceAccountJson", "clientEmail", "privateKey"}]

(* the environment has a value or None of each setting, and of the OAuth   *)
(* client of the server *)
EnvNames ==
  {"stripeSecretKey", "accountSid", "authToken", "fromNumber", "providerUrl", "providerToken",
   "sendgridApiKey", "emailFrom", "smtpHost", "smtpUser", "smtpPass", "slackWebhookUrl", "authType",
   "refreshToken", "serviceAccountJson", "clientEmail", "privateKey", "oauthClient"}

At(cred, q) == cred[q.place][q.key]
(* no setting has more than three places *)
First(cred, places) ==
  LET value(n) == IF n \in DOMAIN places THEN At(cred, places[n]) ELSE None
  IN IF value(1) # None THEN value(1) ELSE IF value(2) # None THEN value(2) ELSE value(3)
Own(cred, setting) == First(cred, Places[setting])

(* buildIntegrationsConfigForSubject: one setting at a time *)
Setting(cred, env, setting) == IF Own(cred, setting) # None THEN Own(cred, setting) ELSE env[setting]

(* the service account of a credential; what the malformed one throws is   *)
(* the malformed value itself *)
ServiceAccount(cred) ==
  IF Own(cred, "serviceAccountJson") # None THEN Own(cred, "serviceAccountJson")
  ELSE IF Own(cred, "clientEmail") # None /\ Own(cred, "privateKey") # None
       THEN Own(cred, "privateKey") ELSE None

(* buildGoogleSheetsAuthConfig: the value that signs in, None without one, *)
(* or the malformed value it throws on - the account of the environment is *)
(* parsed even when the credential has one *)
SheetsAuth(cred, env) ==
  LET token == Own(cred, "refreshToken")
      account == ServiceAccount(cred)
      connected == token # None /\ env.oauthClient # None
      malformed == env.serviceAccountJson # None /\ ~Good(env.serviceAccountJson)
  IN CASE connected /\ Own(cred, "authType") # None -> token
       [] connected /\ account = None -> token
       [] OTHER -> IF account = None \/ (Good(account) /\ malformed)
                   THEN env.serviceAccountJson ELSE account

(* What the activities of a provider need, in their run. *)
Works(p, cred, env) ==
  LET has(setting) == Good(Setting(cred, env, setting))
  IN CASE p = "stripe" -> has("stripeSecretKey")
       [] p = "twilio" -> has("accountSid") /\ has("authToken") /\ has("fromNumber")
       [] p = "kyc" -> has("providerUrl") /\ has("providerToken")
       [] p = "notifications" ->
            \/ has("slackWebhookUrl")
            \/ has("emailFrom") /\ \/ has("sendgridApiKey")
                                   \/ has("smtpHost") /\ has("smtpUser") /\ has("smtpPass")
       [] p = "google_sheets" -> Good(SheetsAuth(cred, env))

-----------------------------------------------------------------------------
(* the state of the environment, whatever the user stored *)
ConfiguredFromEnv(p, cred, env) == \A setting \in Settings[p] : env[setting] # None
(* buildIntegrationsStatusForSubject, provider by provider. *)
Configured(p, cred, env) ==
  LET set(setting) == env[setting] # None
      any(setting) == Setting(cred, env, setting)
  IN CASE p = "stripe" -> Good(Own(cred, "stripeSecretKey")) \/ Good(env.stripeSecretKey)
       [] p = "twilio" ->
            \/ Good(Own(cred, "accountSid")) /\ Good(Own(cred, "authToken")) /\ Good(any("fromNumber"))
            \/ set("accountSid") /\ set("authToken")
       [] p = "kyc" ->
            \/ Good(any("providerUrl")) /\ any("providerToken") # None
            \/ set("providerUrl") /\ set("providerToken")
       [] p = "notifications" ->
            \/ Good(any("sendgridApiKey")) /\ Good(any("emailFrom"))
            \/ set("sendgridApiKey") /\ set("emailFrom")
            \/ any("smtpHost") # None /\ any("smtpUser") # None /\ any("smtpPass") # None /\ Good(any("emailFrom"))
            \/ Good(any("slackWebhookUrl")) \/ set("slackWebhookUrl")
       [] p = "google_sheets" ->
            \/ Own(cred, "refreshToken") # None /\ set("oauthClient")
            \/ First(cred, SubSeq(Places.serviceAccountJson, 1, 2)) # None
            \/ Own(cred, "clientEmail") # None /\ Own(cred, "privateKey") # None
            \/ set("serviceAccountJson")

(* Everything the provider could read has the right format. *)
WellFormed(p, cred, env) ==
  \A setting \in Settings[p] :
    /\ \A n \in DOMAIN Places[setting] : LET v == At(cred, Places[setting][n]) IN v = None \/ v.ok
    /\ env[setting] = None \/ env[setting].ok

(* The account of Twilio is half in the credential, half in the environment. *)
MixedAccount(cred, env) ==
  /\ \E setting \in {"accountSid", "authToken"} : Own(cred, setting) = None
  /\ \E setting \in {"accountSid", "authToken"} : Own(cred, setting) # None

-----------------------------------------------------------------------------
(* The form of a provider, as its schema lists the fields. *)
Field(places, required) == [at |-> places[1], places |-> places, required |-> required]
Fields ==
  [stripe |-> {Field(<<Sec("stripeSecretKey"), Sec("secretKey")>>, TRUE)},
   twilio |-> {Field(<<Sec("accountSid"), Sec("twilioAccountSid")>>, TRUE),
               Field(<<Sec("authToken"), Sec("twilioAuthToken")>>, TRUE),
               Field(<<Cfg("fromNumber"), Cfg("twilioFromNumber")>>, TRUE)},
   kyc |-> {Field(<<Cfg("providerUrl")>>, TRUE), Field(<<Sec("providerToken"), Sec("token")>>, TRUE)},
   notifications |-> {Field(<<Sec("sendgridApiKey"), Sec("apiKey")>>, FALSE),
                      Field(<<Cfg("emailFrom"), Cfg("from")>>, FALSE),
                      Field(<<Sec("slackWebhookUrl")>>, FALSE)},
   google_sheets |-> {}]
OauthConnect(p) == p = "google_sheets"

(* a form, by the keys of the fields of all providers *)
FieldKeys ==
  {"stripeSecretKey", "accountSid", "authToken", "fromNumber", "providerUrl", "providerToken",
   "sendgridApiKey", "emailFrom", "slackWebhookUrl"}
Forms == [FieldKeys -> Values \cup {None}]
NoForm == [k \in FieldKeys |-> None]
Shows(p, k) == \E f \in Fields[p] : f.at.key = k
(* the form of a provider, filled from a credential *)
FormOf(p, cred) ==
  [k \in FieldKeys |-> IF Shows(p, k) THEN First(cred, (CHOOSE f \in Fields[p] : f.at.key = k).places)
                       ELSE None]

HasErrors(p, form) ==
  \/ \E f \in Fields[p] : f.required /\ ~Good(form[f.at.key])
  \/ /\ p = "notifications"
     /\ \/ form.sendgridApiKey = None /\ form.slackWebhookUrl = None
        \/ form.sendgridApiKey # None /\ ~(form.sendgridApiKey.ok /\ Good(form.emailFrom))
        \/ form.slackWebhookUrl # None /\ ~form.slackWebhookUrl.ok

(* what handleSave sends *)
Saved(p, form) ==
  LET shown(q) == IF \E f \in Fields[p] : f.at = q THEN form[q.key] ELSE None
  IN [config |-> [k \in ConfigNames |-> shown(Cfg(k))], secrets |-> [k \in SecretNames |-> shown(Sec(k))]]

(* The form shows everything the credential has. *)
AllPlaces == {Cfg(k) : k \in ConfigNames} \cup {Sec(k) : k \in SecretNames}
ShownWhole(p, cred) ==
  \A q \in AllPlaces : At(cred, q) # None =>
    \E f \in Fields[p] : \E n \in DOMAIN f.places : f.places[n] = q

-----------------------------------------------------------------------------
(* seedUserCredentialsFromEnv: what it would save of a provider. *)
Seeds(p, env) ==
  LET set(setting) == env[setting] # None
  IN CASE p = "stripe" -> Good(env.stripeSecretKey)
       [] p = "notifications" ->
            /\ Good(env.emailFrom)
            /\ \/ Good(env.sendgridApiKey)
               \/ set("smtpHost") /\ set("smtpUser") /\ set("smtpPass")
       [] p = "twilio" -> set("accountSid") /\ set("authToken") /\ set("fromNumber")
       [] p = "kyc" -> set("providerUrl") /\ set("providerToken")
       [] p = "google_sheets" -> set("serviceAccountJson")

SeedPatch(p, env) ==
  LET of(names, keys) == [k \in names |-> IF k \in keys THEN env[k] ELSE None]
  IN CASE p = "notifications" ->
            [config |-> of(ConfigNames, {"emailFrom", "smtpHost"}),
             secrets |-> of(SecretNames, {"sendgridApiKey", "smtpUser", "smtpPass", "slackWebhookUrl"})]
       [] p = "twilio" -> [config |-> of(ConfigNames, {"fromNumber"}),
                           secrets |-> of(SecretNames, {"accountSid", "authToken"})]
       [] OTHER -> [config |-> None, secrets |-> of(SecretNames, Settings[p])]
=============================================================================
