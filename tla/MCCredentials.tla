--------------------------- MODULE MCCredentials ----------------------------
(***************************************************************************)
(* One scenario per question: saves of one credential on two processes,    *)
(* seeding, migration to Vault, a change of backend, Google's consent, the *)
(* page; and, with nothing running, every credential of a provider over    *)
(* the keys that its status, its form and its activities tell apart.       *)
(***************************************************************************)
EXTENDS Credentials, TLC

NoRequests == [k \in Kinds |-> 0]
Only(f) == f @@ NoRequests
NoEnv == [x \in EnvNames |-> None]
Given(p, keys) == [k \in keys |-> Value(0, p, TRUE)]
Has(p, config, secrets) == [config |-> Given(p, config) @@ NoConfig, secrets |-> Given(p, secrets) @@ NoSecrets]

Twilio == Has("twilio", {"fromNumber"}, {"accountSid", "authToken"})
Stripe == Has("stripe", {}, {"stripeSecretKey"})
Account == Has("google_sheets", {}, {"serviceAccountJson"})
TwilioEnv == Given("twilio", Settings.twilio)
Both == [config |-> TRUE, secrets |-> TRUE]

Quiet == [servers |-> {"s1"}, backends |-> {"vault"}, migrates |-> FALSE, seeds |-> FALSE, env |-> NoEnv,
          rows |-> NoRows, kept |-> "vault", requests |-> NoRequests, providers |-> {"twilio"},
          keys |-> {Both}, clock |-> FALSE, faults |-> 0]

Saving == [servers |-> {"s1", "s2"}, rows |-> (<<User, "twilio">> :> Twilio) @@ NoRows,
           keys |-> [config : BOOLEAN, secrets : BOOLEAN],
           requests |-> Only([put |-> 2]), faults |-> 1] @@ Quiet
Reading == [requests |-> Only([put |-> 1, get |-> 1])] @@ Saving
Encrypting == [servers |-> {"s1"}, backends |-> {"encrypted"}, kept |-> "encrypted",
               requests |-> Only([put |-> 2, get |-> 1])] @@ Saving
Seeding == [servers |-> {"s1", "s2"}, seeds |-> TRUE, env |-> TwilioEnv @@ Given("stripe", Settings.stripe) @@ NoEnv,
            rows |-> (<<User, "stripe">> :> Stripe) @@ NoRows, requests |-> Only([put |-> 1]), faults |-> 1] @@ Quiet
Migrating == [servers |-> {"s1", "s2"}, migrates |-> TRUE, kept |-> "encrypted",
              rows |-> (<<User, "twilio">> :> Twilio) @@ (<<User, "stripe">> :> Stripe) @@ NoRows,
              requests |-> Only([put |-> 1]), faults |-> 1] @@ Quiet
ReadingMoved == [rows |-> (<<User, "twilio">> :> Twilio) @@ NoRows, requests |-> Only([put |-> 1, get |-> 1])] @@ Migrating
Switching == [servers |-> {"s1", "s2"}, backends |-> {"encrypted", "vault"}, rows |-> (<<User, "twilio">> :> Twilio) @@ NoRows,
              requests |-> Only([put |-> 1, get |-> 1]), migrates |-> TRUE, faults |-> 1] @@ Quiet
Consenting == [rows |-> (<<System, "google_sheets">> :> Account) @@ NoRows, providers |-> {"google_sheets"},
               requests |-> Only([start |-> 2, callback |-> 2]),
               env |-> Given("google_sheets", {"oauthClient"}) @@ NoEnv, clock |-> TRUE] @@ Quiet
Leaving == [requests |-> Only([start |-> 1, callback |-> 1, disconnect |-> 1]), clock |-> FALSE, faults |-> 1] @@ Consenting
Stopping == [rows |-> (<<System, "google_sheets">> :>
                         [NoCredential EXCEPT !.secrets.serviceAccountJson = Value(0, "google_sheets", FALSE)]) @@ NoRows] @@ Quiet
Browsing == [providers |-> {"twilio", "stripe"}, kept |-> "encrypted", backends |-> {"encrypted"},
             rows |-> (<<User, "twilio">> :> Twilio) @@ (<<User, "stripe">> :> Stripe) @@ NoRows,
             requests |-> Only([visit |-> 1, choose |-> 1, edit |-> 1, save |-> 1])] @@ Quiet
Connecting == [providers |-> {"google_sheets"}, kept |-> "encrypted", backends |-> {"encrypted"},
               env |-> Given("google_sheets", {"oauthClient"}) @@ NoEnv,
               requests |-> Only([visit |-> 2, start |-> 1, callback |-> 1])] @@ Quiet
Parting == [requests |-> Only([visit |-> 1, start |-> 1, callback |-> 1, disconnect |-> 1])] @@ Connecting
Returning == [rows |-> (<<User, "google_sheets">> :> Has("google_sheets", {"authType"}, {"refreshToken"})) @@ NoRows,
              requests |-> Only([visit |-> 2, start |-> 1, disconnect |-> 1])] @@ Connecting

(* every value of the keys, or none of it *)
Partial(p, keys, oks) ==
  [keys -> {None} \cup {Value(0, p, ok) : ok \in oks}]
Meaning(p, configs, secrets, envs) ==
  {[servers |-> {}, rows |-> (<<User, p>> :> [config |-> c @@ NoConfig, secrets |-> s @@ NoSecrets]) @@ NoRows, env |-> e @@ NoEnv] @@ Quiet :
     c \in configs, s \in secrets, e \in envs}
Unchecked(p, keys) == Partial(p, keys, BOOLEAN)
Fine(p, keys) == Partial(p, keys, {TRUE})

StripeMeans ==
  Meaning("stripe", Unchecked("stripe", {"stripeSecretKey"}),
          Unchecked("stripe", {"stripeSecretKey", "secretKey"}), Unchecked("stripe", {"stripeSecretKey"}))
TwilioMeans ==
  Meaning("twilio", Unchecked("twilio", {"fromNumber"}) \cup Fine("twilio", {"accountSid", "twilioFromNumber"}),
          Fine("twilio", {"accountSid", "twilioAccountSid", "authToken"}), Fine("twilio", Settings.twilio))
KycMeans ==
  Meaning("kyc", Unchecked("kyc", {"providerUrl"}), Fine("kyc", {"providerUrl", "providerToken", "token"}),
          Fine("kyc", Settings.kyc))
MailMeans ==
  Meaning("notifications", Fine("notifications", {"emailFrom", "from", "smtpHost"}),
          Fine("notifications", {"sendgridApiKey", "apiKey", "smtpUser", "smtpPassword", "slackWebhookUrl"}),
          Fine("notifications", {"sendgridApiKey", "emailFrom", "smtpPass"}))
SheetsMeans ==
  Meaning("google_sheets", Fine("google_sheets", {"authType"}),
          Fine("google_sheets", 
               {"refreshToken", "serviceAccountJson", "googleServiceAccountJson", "clientEmail", "privateKey"}),
          Fine("google_sheets", {"serviceAccountJson", "oauthClient"}))
Meanings == StripeMeans \cup TwilioMeans \cup KycMeans \cup MailMeans \cup SheetsMeans

AllScenarios ==
  {Saving, Reading, Encrypting, Seeding, Migrating, ReadingMoved, Switching, Consenting, Leaving, Stopping,
   Browsing, Connecting, Parting, Returning} \cup Meanings

Requests == Permutations(Slots)
=============================================================================
