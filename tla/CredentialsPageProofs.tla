----------------------- MODULE CredentialsPageProofs -----------------------
(***************************************************************************)
(* What is proved of the page of Credentials, for every value of its       *)
(* constants.  The invariant of CredentialsProofs is extended by           *)
(*                                                                         *)
(*   - what the page knows: what it shows, or is about to show, of a       *)
(*     version of a credential is what is expected of that version, and    *)
(*     stays true until there is another version, whoever makes it;        *)
(*   - that every value is of its own provider wherever it is, until the   *)
(*     page saves a document that another may have brought.                *)
(*                                                                         *)
(* That a form stores what it showed is a fact of the tables of fields and *)
(* places alone.                                                           *)
(***************************************************************************)
EXTENDS CredentialsProofs

-----------------------------------------------------------------------------
(* What the page knows: the version of a credential that an answer was     *)
(* about, and what it showed of it. *)
FromTab(t) == t # Idle /\ t.from = "tab"
Knows(n, key) == n # None => n <= history.version[key]
ListedAs(items, n) ==
  /\ Knows(n, Sheets(User))
  /\ n = history.version[Sheets(User)] =>
       \A c \in history.expect[Sheets(User)] :
         Disturbed(Sheets(User)) \/ ("google_sheets" \in items <=> c.secrets # NoSecrets)
ShownAs(p, key) ==
  /\ Knows(tab.since, key)
  /\ OauthConnect(p) => tab.form = NoForm
  /\ tab.since = history.version[key] =>
       \A c \in history.expect[key] :
         \/ Disturbed(key)
         \/ /\ tab.form = FormOf(p, c)
            /\ OauthConnect(p) => (tab.email <=> c.config.connectedEmail # None)
Shown == ~tab.failed /\ ~tab.edited /\ ~tab.late /\ ~Loading => ShownAs(tab.provider, <<User, tab.provider>>)
DisconnectedAt(n) ==
  n # None => /\ n + 1 <= history.version[Sheets(User)]
              /\ n + 1 = history.version[Sheets(User)] => \A c \in history.expect[Sheets(User)] : c = Disconnected
AskedAs(t) ==
  /\ t.op \in {"get", "put", "list", "disconnect"}
  /\ t.op = "list" => t.key = Sheets(User) /\ ListedAs(t.items, t.since)
  /\ t.op = "disconnect" =>
       /\ t.key = Sheets(User) /\ t.patch = Disconnected /\ Knows(t.since, Sheets(User))
       /\ t.pc = "answered" => DisconnectedAt(t.since)
WantsSheets == \A w \in tab.wants : w.op = "disconnect" => w.provider = "google_sheets" /\ w.patch = Disconnected
PageInv ==
  /\ Shown /\ ListedAs(tab.items, tab.listed) /\ WantsSheets
  /\ \A h \in Slots : FromTab(task[h]) => AskedAs(task[h])

-----------------------------------------------------------------------------
(* Where all values are of their own provider, and what the page has while *)
(* no credential is being loaded. *)
AllOf(c, p) == ConfigOf(c.config, p) /\ SecretsOf(c.secrets, p)
RowOf(key) ==
  /\ db.rows[key] # None => /\ ConfigOf(db.rows[key].config, key[2])
                            /\ db.rows[key].ref # None => SecretsOf(db.rows[key].ref.secrets, key[2])
  /\ db.vault[key] # None => SecretsOf(db.vault[key], key[2])
ServerOf(r) == \A x \in r.todo : SecretsOf(x.secrets, x.key[2])
TaskOf(t) == t.key \in Keys => AllOf(t.credential, t.key[2]) /\ PatchOf(t.patch, t.key[2])
WantsOf == \A w \in tab.wants : PatchOf(w.patch, w.provider)
FormOwn == ~tab.late /\ ~Loading => /\ AllOf(tab.draft, tab.provider)
                                    /\ \A k \in FieldKeys : For(tab.form[k], tab.provider)
Unmixed ==
  /\ WantsOf /\ FormOwn
  /\ \A key \in Keys : RowOf(key)
  /\ \A s \in Servers : ServerOf(server[s])
  /\ \A a \in Actors : TaskOf(task[a])
MixedInv == history.mixed \/ Unmixed

-----------------------------------------------------------------------------
(* What the form shows comes back as it was. *)
LEMMA FirstOfPlaces ==
  ASSUME NEW c
  PROVE  /\ \A a : First(c, <<a>>) = At(c, a)
         /\ \A a, b : First(c, <<a, b>>) = IF At(c, a) # None THEN At(c, a) ELSE At(c, b)
         /\ \A a, b, d : First(c, <<a, b, d>>) = IF At(c, a) # None THEN At(c, a)
                                                ELSE IF At(c, b) # None THEN At(c, b) ELSE At(c, d)
<1>1. ASSUME NEW a PROVE First(c, <<a>>) = At(c, a) BY DEF First
<1>2. ASSUME NEW a, NEW b PROVE First(c, <<a, b>>) = IF At(c, a) # None THEN At(c, a) ELSE At(c, b) BY DEF First
<1>3. ASSUME NEW a, NEW b, NEW d
      PROVE  First(c, <<a, b, d>>) = IF At(c, a) # None THEN At(c, a)
                                     ELSE IF At(c, b) # None THEN At(c, b) ELSE At(c, d)
  BY DEF First
<1> QED BY <1>1, <1>2, <1>3

LEMMA SavedAt ==
  ASSUME NEW p, NEW form, NEW q \in AllPlaces
  PROVE  At(Saved(p, form), q) = IF \E f \in Fields[p] : f.at = q THEN form[q.key] ELSE None
<1>1. CASE \E k \in ConfigNames : q = Cfg(k) BY <1>1 DEF At, Cfg, Saved
<1>2. CASE \E k \in SecretNames : q = Sec(k) BY <1>2 DEF At, Sec, Saved
<1> QED BY <1>1, <1>2 DEF AllPlaces

LEMMA FieldKey ==
  /\ \A k, j, b : Field(<<Sec(k), Sec(j)>>, b).at = Sec(k) /\ Field(<<Sec(k), Sec(j)>>, b).places = <<Sec(k), Sec(j)>>
  /\ \A k, j, b : Field(<<Cfg(k), Cfg(j)>>, b).at = Cfg(k) /\ Field(<<Cfg(k), Cfg(j)>>, b).places = <<Cfg(k), Cfg(j)>>
  /\ \A k, b : Field(<<Sec(k)>>, b).at = Sec(k) /\ Field(<<Sec(k)>>, b).places = <<Sec(k)>>
  /\ \A k, b : Field(<<Cfg(k)>>, b).at = Cfg(k) /\ Field(<<Cfg(k)>>, b).places = <<Cfg(k)>>
  /\ \A k : Sec(k).key = k /\ Cfg(k).key = k
BY DEF Field, Sec, Cfg

LEMMA FieldsApart ==
  \A p \in Providers : \A f, g \in Fields[p] : f.at.key = g.at.key => f = g
<1> TAKE p \in Providers
<1>1. CASE p = "stripe"
  <2>1. PICK f1 :
           /\ f1 = Field(<<Sec("stripeSecretKey"), Sec("secretKey")>>, TRUE)
    OBVIOUS
  <2>2. Fields[p] = {f1} BY <1>1, <2>1 DEF Fields
  <2>3. f1.at.key = "stripeSecretKey" BY <2>1 DEF Field, Sec, Cfg
  <2> QED BY <2>2, <2>3
<1>2. CASE p = "twilio"
  <2>1. PICK f1, f2, f3 :
           /\ f1 = Field(<<Sec("accountSid"), Sec("twilioAccountSid")>>, TRUE)
           /\ f2 = Field(<<Sec("authToken"), Sec("twilioAuthToken")>>, TRUE)
           /\ f3 = Field(<<Cfg("fromNumber"), Cfg("twilioFromNumber")>>, TRUE)
    OBVIOUS
  <2>2. Fields[p] = {f1, f2, f3} BY <1>2, <2>1 DEF Fields
  <2>3. f1.at.key = "accountSid" /\ f2.at.key = "authToken" /\ f3.at.key = "fromNumber" BY <2>1 DEF Field, Sec, Cfg
  <2> QED BY <2>2, <2>3
<1>3. CASE p = "kyc"
  <2>1. PICK f1, f2 :
           /\ f1 = Field(<<Cfg("providerUrl")>>, TRUE)
           /\ f2 = Field(<<Sec("providerToken"), Sec("token")>>, TRUE)
    OBVIOUS
  <2>2. Fields[p] = {f1, f2} BY <1>3, <2>1 DEF Fields
  <2>3. f1.at.key = "providerUrl" /\ f2.at.key = "providerToken" BY <2>1 DEF Field, Sec, Cfg
  <2> QED BY <2>2, <2>3
<1>4. CASE p = "notifications"
  <2>1. PICK f1, f2, f3 :
           /\ f1 = Field(<<Sec("sendgridApiKey"), Sec("apiKey")>>, FALSE)
           /\ f2 = Field(<<Cfg("emailFrom"), Cfg("from")>>, FALSE)
           /\ f3 = Field(<<Sec("slackWebhookUrl")>>, FALSE)
    OBVIOUS
  <2>2. Fields[p] = {f1, f2, f3} BY <1>4, <2>1 DEF Fields
  <2>3. f1.at.key = "sendgridApiKey" /\ f2.at.key = "emailFrom" /\ f3.at.key = "slackWebhookUrl" BY <2>1 DEF Field, Sec, Cfg
  <2> QED BY <2>2, <2>3
<1>5. CASE p = "google_sheets" BY <1>5 DEF Fields
<1> QED BY <1>1, <1>2, <1>3, <1>4, <1>5 DEF Providers

(* what a save of the form stores at a place *)
LEMMA RoundTrip ==
  ASSUME NEW p \in Providers, NEW c, NEW q \in AllPlaces
  PROVE  /\ \A f \in Fields[p] : f.at = q => At(Saved(p, FormOf(p, c)), q) = First(c, f.places)
         /\ (\A f \in Fields[p] : f.at # q) => At(Saved(p, FormOf(p, c)), q) = None
<1>1. ASSUME NEW f \in Fields[p], f.at = q PROVE At(Saved(p, FormOf(p, c)), q) = First(c, f.places)
  <2>1. q.key \in FieldKeys /\ Shows(p, q.key) BY <1>1, FieldFacts DEF Shows
  <2>2. (CHOOSE g \in Fields[p] : g.at.key = q.key) = f BY <1>1, FieldsApart
  <2>3. FormOf(p, c)[q.key] = First(c, f.places) BY <2>1, <2>2 DEF FormOf
  <2> QED BY <1>1, <2>3, SavedAt
<1> QED BY <1>1, SavedAt

(* what the form does not show, the credential has not *)
LEMMA NotShown ==
  ASSUME NEW p, NEW c, ShownWhole(p, c), NEW q \in AllPlaces,
         \A f \in Fields[p] : \A n \in DOMAIN f.places : f.places[n] # q
  PROVE  At(c, q) = None
BY DEF ShownWhole

LEMMA PlacesFacts ==
  /\ Places["stripeSecretKey"] = <<Sec("stripeSecretKey"), Sec("secretKey"), Cfg("stripeSecretKey")>>
  /\ Places["accountSid"] = <<Sec("accountSid"), Sec("twilioAccountSid"), Cfg("accountSid")>>
  /\ Places["authToken"] = <<Sec("authToken"), Sec("twilioAuthToken"), Cfg("authToken")>>
  /\ Places["fromNumber"] = <<Cfg("fromNumber"), Cfg("twilioFromNumber")>>
  /\ Places["providerUrl"] = <<Sec("providerUrl"), Cfg("providerUrl")>>
  /\ Places["providerToken"] = <<Sec("providerToken"), Sec("token"), Cfg("providerToken")>>
  /\ Places["sendgridApiKey"] = <<Sec("sendgridApiKey"), Sec("apiKey"), Cfg("sendgridApiKey")>>
  /\ Places["emailFrom"] = <<Cfg("emailFrom"), Cfg("from")>>
  /\ Places["smtpHost"] = <<Cfg("smtpHost"), Sec("smtpHost")>>
  /\ Places["smtpUser"] = <<Sec("smtpUser"), Cfg("smtpUser")>>
  /\ Places["smtpPass"] = <<Sec("smtpPass"), Sec("smtpPassword")>>
  /\ Places["slackWebhookUrl"] = <<Sec("slackWebhookUrl"), Cfg("slackWebhookUrl")>>
BY DEF Places

LEMMA PlacesApart ==
  /\ \A k, j : Sec(k) # Cfg(j) /\ (Sec(k) = Sec(j) => k = j) /\ (Cfg(k) = Cfg(j) => k = j)
  /\ \A k \in SecretNames : Sec(k) \in AllPlaces
  /\ \A k \in ConfigNames : Cfg(k) \in AllPlaces
<1>1. ASSUME NEW k, NEW j
      PROVE  Sec(k) # Cfg(j) /\ (Sec(k) = Sec(j) => k = j) /\ (Cfg(k) = Cfg(j) => k = j)
  <2>1. Sec(k).place = "secrets" /\ Cfg(j).place = "config" BY DEF Sec, Cfg
  <2> QED BY <2>1, FieldKey
<1> QED BY <1>1 DEF AllPlaces

LEMMA StripeBack ==
  ASSUME NEW c, ShownWhole("stripe", c), NEW setting \in Settings["stripe"]
  PROVE  Own(Saved("stripe", FormOf("stripe", c)), setting) = Own(c, setting)
<1>1. PICK e : e = Saved("stripe", FormOf("stripe", c)) OBVIOUS
<1>2. PICK a1, a2, a3 :
        /\ a1 = Sec("stripeSecretKey")
        /\ a2 = Sec("secretKey")
        /\ a3 = Cfg("stripeSecretKey")
  OBVIOUS
<1>3. PICK f1 :
        /\ f1 = Field(<<a1, a2>>, TRUE)
  OBVIOUS
<1>4. Fields["stripe"] = {f1} BY <1>2, <1>3 DEF Fields
<1>5. /\ f1.at = a1 /\ f1.places = <<a1, a2>>
  BY <1>3 DEF Field
<1>6. \A q \in {a1, a2, a3} : q \in AllPlaces
  BY <1>2, PlacesApart DEF SecretNames, ConfigNames
<1>7. /\ a1 \notin {a2, a3}
      /\ a2 \notin {a3}
  BY <1>2, PlacesApart
<1>8. \A q \in {a3} : At(c, q) = None
  <2> SUFFICES ASSUME NEW q \in {a3} PROVE At(c, q) = None OBVIOUS
  <2>1. \A g \in Fields["stripe"] : \A n \in DOMAIN g.places : g.places[n] # q BY <1>4, <1>5, <1>7
  <2> QED BY <1>6, <2>1, NotShown
<1>9. \A q \in {a2, a3} : At(e, q) = None
  <2> SUFFICES ASSUME NEW q \in {a2, a3} PROVE At(e, q) = None OBVIOUS
  <2>1. \A g \in Fields["stripe"] : g.at # q BY <1>4, <1>5, <1>7
  <2> QED BY <1>1, <1>6, <2>1, RoundTrip DEF Providers
<1>10. /\ At(e, a1) = First(c, <<a1, a2>>)
  BY <1>1, <1>4, <1>5, <1>6, RoundTrip DEF Providers
<1>11. CASE setting = "stripeSecretKey"
  <2>1. First(e, <<a1, a2, a3>>) = First(c, <<a1, a2, a3>>) BY <1>8, <1>9, <1>10, FirstOfPlaces
  <2> QED BY <1>1, <1>2, <1>11, <2>1, PlacesFacts DEF Own
<1> QED BY <1>11 DEF Settings

LEMMA TwilioBack ==
  ASSUME NEW c, ShownWhole("twilio", c), NEW setting \in Settings["twilio"]
  PROVE  Own(Saved("twilio", FormOf("twilio", c)), setting) = Own(c, setting)
<1>1. PICK e : e = Saved("twilio", FormOf("twilio", c)) OBVIOUS
<1>2. PICK a1, a2, a3, b1, b2, b3, d1, d2 :
        /\ a1 = Sec("accountSid")
        /\ a2 = Sec("twilioAccountSid")
        /\ a3 = Cfg("accountSid")
        /\ b1 = Sec("authToken")
        /\ b2 = Sec("twilioAuthToken")
        /\ b3 = Cfg("authToken")
        /\ d1 = Cfg("fromNumber")
        /\ d2 = Cfg("twilioFromNumber")
  OBVIOUS
<1>3. PICK f1, f2, f3 :
        /\ f1 = Field(<<a1, a2>>, TRUE)
        /\ f2 = Field(<<b1, b2>>, TRUE)
        /\ f3 = Field(<<d1, d2>>, TRUE)
  OBVIOUS
<1>4. Fields["twilio"] = {f1, f2, f3} BY <1>2, <1>3 DEF Fields
<1>5. /\ f1.at = a1 /\ f1.places = <<a1, a2>>
      /\ f2.at = b1 /\ f2.places = <<b1, b2>>
      /\ f3.at = d1 /\ f3.places = <<d1, d2>>
  BY <1>3 DEF Field
<1>6. \A q \in {a1, a2, a3, b1, b2, b3, d1, d2} : q \in AllPlaces
  BY <1>2, PlacesApart DEF SecretNames, ConfigNames
<1>7. /\ a1 \notin {a2, a3, b1, b2, b3, d1, d2}
      /\ a2 \notin {a3, b1, b2, b3, d1, d2}
      /\ a3 \notin {b1, b2, b3, d1, d2}
      /\ b1 \notin {b2, b3, d1, d2}
      /\ b2 \notin {b3, d1, d2}
      /\ b3 \notin {d1, d2}
      /\ d1 \notin {d2}
  BY <1>2, PlacesApart
<1>8. \A q \in {a3, b3} : At(c, q) = None
  <2> SUFFICES ASSUME NEW q \in {a3, b3} PROVE At(c, q) = None OBVIOUS
  <2>1. \A g \in Fields["twilio"] : \A n \in DOMAIN g.places : g.places[n] # q BY <1>4, <1>5, <1>7
  <2> QED BY <1>6, <2>1, NotShown
<1>9. \A q \in {a2, a3, b2, b3, d2} : At(e, q) = None
  <2> SUFFICES ASSUME NEW q \in {a2, a3, b2, b3, d2} PROVE At(e, q) = None OBVIOUS
  <2>1. \A g \in Fields["twilio"] : g.at # q BY <1>4, <1>5, <1>7
  <2> QED BY <1>1, <1>6, <2>1, RoundTrip DEF Providers
<1>10. /\ At(e, a1) = First(c, <<a1, a2>>)
       /\ At(e, b1) = First(c, <<b1, b2>>)
       /\ At(e, d1) = First(c, <<d1, d2>>)
  BY <1>1, <1>4, <1>5, <1>6, RoundTrip DEF Providers
<1>11. CASE setting = "accountSid"
  <2>1. First(e, <<a1, a2, a3>>) = First(c, <<a1, a2, a3>>) BY <1>8, <1>9, <1>10, FirstOfPlaces
  <2> QED BY <1>1, <1>2, <1>11, <2>1, PlacesFacts DEF Own
<1>12. CASE setting = "authToken"
  <2>1. First(e, <<b1, b2, b3>>) = First(c, <<b1, b2, b3>>) BY <1>8, <1>9, <1>10, FirstOfPlaces
  <2> QED BY <1>1, <1>2, <1>12, <2>1, PlacesFacts DEF Own
<1>13. CASE setting = "fromNumber"
  <2>1. First(e, <<d1, d2>>) = First(c, <<d1, d2>>) BY <1>8, <1>9, <1>10, FirstOfPlaces
  <2> QED BY <1>1, <1>2, <1>13, <2>1, PlacesFacts DEF Own
<1> QED BY <1>11, <1>12, <1>13 DEF Settings

LEMMA KycBack ==
  ASSUME NEW c, ShownWhole("kyc", c), NEW setting \in Settings["kyc"]
  PROVE  Own(Saved("kyc", FormOf("kyc", c)), setting) = Own(c, setting)
<1>1. PICK e : e = Saved("kyc", FormOf("kyc", c)) OBVIOUS
<1>2. PICK a1, a2, b1, b2, b3 :
        /\ a1 = Sec("providerUrl")
        /\ a2 = Cfg("providerUrl")
        /\ b1 = Sec("providerToken")
        /\ b2 = Sec("token")
        /\ b3 = Cfg("providerToken")
  OBVIOUS
<1>3. PICK f1, f2 :
        /\ f1 = Field(<<a2>>, TRUE)
        /\ f2 = Field(<<b1, b2>>, TRUE)
  OBVIOUS
<1>4. Fields["kyc"] = {f1, f2} BY <1>2, <1>3 DEF Fields
<1>5. /\ f1.at = a2 /\ f1.places = <<a2>>
      /\ f2.at = b1 /\ f2.places = <<b1, b2>>
  BY <1>3 DEF Field
<1>6. \A q \in {a1, a2, b1, b2, b3} : q \in AllPlaces
  BY <1>2, PlacesApart DEF SecretNames, ConfigNames
<1>7. /\ a1 \notin {a2, b1, b2, b3}
      /\ a2 \notin {b1, b2, b3}
      /\ b1 \notin {b2, b3}
      /\ b2 \notin {b3}
  BY <1>2, PlacesApart
<1>8. \A q \in {a1, b3} : At(c, q) = None
  <2> SUFFICES ASSUME NEW q \in {a1, b3} PROVE At(c, q) = None OBVIOUS
  <2>1. \A g \in Fields["kyc"] : \A n \in DOMAIN g.places : g.places[n] # q BY <1>4, <1>5, <1>7
  <2> QED BY <1>6, <2>1, NotShown
<1>9. \A q \in {a1, b2, b3} : At(e, q) = None
  <2> SUFFICES ASSUME NEW q \in {a1, b2, b3} PROVE At(e, q) = None OBVIOUS
  <2>1. \A g \in Fields["kyc"] : g.at # q BY <1>4, <1>5, <1>7
  <2> QED BY <1>1, <1>6, <2>1, RoundTrip DEF Providers
<1>10. /\ At(e, a2) = First(c, <<a2>>)
       /\ At(e, b1) = First(c, <<b1, b2>>)
  BY <1>1, <1>4, <1>5, <1>6, RoundTrip DEF Providers
<1>11. CASE setting = "providerUrl"
  <2>1. First(e, <<a1, a2>>) = First(c, <<a1, a2>>) BY <1>8, <1>9, <1>10, FirstOfPlaces
  <2> QED BY <1>1, <1>2, <1>11, <2>1, PlacesFacts DEF Own
<1>12. CASE setting = "providerToken"
  <2>1. First(e, <<b1, b2, b3>>) = First(c, <<b1, b2, b3>>) BY <1>8, <1>9, <1>10, FirstOfPlaces
  <2> QED BY <1>1, <1>2, <1>12, <2>1, PlacesFacts DEF Own
<1> QED BY <1>11, <1>12 DEF Settings

LEMMA NotificationsBack ==
  ASSUME NEW c, ShownWhole("notifications", c), NEW setting \in Settings["notifications"]
  PROVE  Own(Saved("notifications", FormOf("notifications", c)), setting) = Own(c, setting)
<1>1. PICK e : e = Saved("notifications", FormOf("notifications", c)) OBVIOUS
<1>2. PICK a1, a2, a3, b1, b2, d1, d2, h1, h2, u1, u2, w1, w2 :
        /\ a1 = Sec("sendgridApiKey")
        /\ a2 = Sec("apiKey")
        /\ a3 = Cfg("sendgridApiKey")
        /\ b1 = Cfg("emailFrom")
        /\ b2 = Cfg("from")
        /\ d1 = Sec("slackWebhookUrl")
        /\ d2 = Cfg("slackWebhookUrl")
        /\ h1 = Cfg("smtpHost")
        /\ h2 = Sec("smtpHost")
        /\ u1 = Sec("smtpUser")
        /\ u2 = Cfg("smtpUser")
        /\ w1 = Sec("smtpPass")
        /\ w2 = Sec("smtpPassword")
  OBVIOUS
<1>3. PICK f1, f2, f3 :
        /\ f1 = Field(<<a1, a2>>, FALSE)
        /\ f2 = Field(<<b1, b2>>, FALSE)
        /\ f3 = Field(<<d1>>, FALSE)
  OBVIOUS
<1>4. Fields["notifications"] = {f1, f2, f3} BY <1>2, <1>3 DEF Fields
<1>5. /\ f1.at = a1 /\ f1.places = <<a1, a2>>
      /\ f2.at = b1 /\ f2.places = <<b1, b2>>
      /\ f3.at = d1 /\ f3.places = <<d1>>
  BY <1>3 DEF Field
<1>6. \A q \in {a1, a2, a3, b1, b2, d1, d2, h1, h2, u1, u2, w1, w2} : q \in AllPlaces
  BY <1>2, PlacesApart DEF SecretNames, ConfigNames
<1>7. /\ a1 \notin {a2, a3, b1, b2, d1, d2, h1, h2, u1, u2, w1, w2}
      /\ a2 \notin {a3, b1, b2, d1, d2, h1, h2, u1, u2, w1, w2}
      /\ a3 \notin {b1, b2, d1, d2, h1, h2, u1, u2, w1, w2}
      /\ b1 \notin {b2, d1, d2, h1, h2, u1, u2, w1, w2}
      /\ b2 \notin {d1, d2, h1, h2, u1, u2, w1, w2}
      /\ d1 \notin {d2, h1, h2, u1, u2, w1, w2}
      /\ d2 \notin {h1, h2, u1, u2, w1, w2}
      /\ h1 \notin {h2, u1, u2, w1, w2}
      /\ h2 \notin {u1, u2, w1, w2}
      /\ u1 \notin {u2, w1, w2}
      /\ u2 \notin {w1, w2}
      /\ w1 \notin {w2}
  BY <1>2, PlacesApart
<1>8. \A q \in {a3, d2, h1, h2, u1, u2, w1, w2} : At(c, q) = None
  <2> SUFFICES ASSUME NEW q \in {a3, d2, h1, h2, u1, u2, w1, w2} PROVE At(c, q) = None OBVIOUS
  <2>1. \A g \in Fields["notifications"] : \A n \in DOMAIN g.places : g.places[n] # q BY <1>4, <1>5, <1>7
  <2> QED BY <1>6, <2>1, NotShown
<1>9. \A q \in {a2, a3, b2, d2, h1, h2, u1, u2, w1, w2} : At(e, q) = None
  <2> SUFFICES ASSUME NEW q \in {a2, a3, b2, d2, h1, h2, u1, u2, w1, w2} PROVE At(e, q) = None OBVIOUS
  <2>1. \A g \in Fields["notifications"] : g.at # q BY <1>4, <1>5, <1>7
  <2> QED BY <1>1, <1>6, <2>1, RoundTrip DEF Providers
<1>10. /\ At(e, a1) = First(c, <<a1, a2>>)
       /\ At(e, b1) = First(c, <<b1, b2>>)
       /\ At(e, d1) = First(c, <<d1>>)
  BY <1>1, <1>4, <1>5, <1>6, RoundTrip DEF Providers
<1>11. CASE setting = "sendgridApiKey"
  <2>1. First(e, <<a1, a2, a3>>) = First(c, <<a1, a2, a3>>) BY <1>8, <1>9, <1>10, FirstOfPlaces
  <2> QED BY <1>1, <1>2, <1>11, <2>1, PlacesFacts DEF Own
<1>12. CASE setting = "emailFrom"
  <2>1. First(e, <<b1, b2>>) = First(c, <<b1, b2>>) BY <1>8, <1>9, <1>10, FirstOfPlaces
  <2> QED BY <1>1, <1>2, <1>12, <2>1, PlacesFacts DEF Own
<1>13. CASE setting = "slackWebhookUrl"
  <2>1. First(e, <<d1, d2>>) = First(c, <<d1, d2>>) BY <1>8, <1>9, <1>10, FirstOfPlaces
  <2> QED BY <1>1, <1>2, <1>13, <2>1, PlacesFacts DEF Own
<1>14. CASE setting = "smtpHost"
  <2>1. First(e, <<h1, h2>>) = First(c, <<h1, h2>>) BY <1>8, <1>9, <1>10, FirstOfPlaces
  <2> QED BY <1>1, <1>2, <1>14, <2>1, PlacesFacts DEF Own
<1>15. CASE setting = "smtpUser"
  <2>1. First(e, <<u1, u2>>) = First(c, <<u1, u2>>) BY <1>8, <1>9, <1>10, FirstOfPlaces
  <2> QED BY <1>1, <1>2, <1>15, <2>1, PlacesFacts DEF Own
<1>16. CASE setting = "smtpPass"
  <2>1. First(e, <<w1, w2>>) = First(c, <<w1, w2>>) BY <1>8, <1>9, <1>10, FirstOfPlaces
  <2> QED BY <1>1, <1>2, <1>16, <2>1, PlacesFacts DEF Own
<1> QED BY <1>11, <1>12, <1>13, <1>14, <1>15, <1>16 DEF Settings

(* Saving the form that showed the whole of a credential and no error      *)
(* stores the same settings (CredentialsPage.tsx handleSave).              *)
THEOREM FormsKeepSettings == Spec => []FormKeepsSettings
<1>1. ASSUME Basics PROVE FormKeepsSettings
  <2> SUFFICES ASSUME NEW key \in Keys, NEW p, p = key[2], NEW c, c = Current(key), ~OauthConnect(p), ShownWhole(p, c),
                      NEW setting \in Settings[p]
               PROVE  Own(Saved(p, FormOf(p, c)), setting) = Own(c, setting)
    BY DEF FormKeepsSettings
  <2>1. p \in Providers \ {"google_sheets"} BY KeyFacts DEF OauthConnect
  <2> QED BY <2>1, StripeBack, TwilioBack, KycBack, NotificationsBack DEF Providers
<1> QED BY <1>1, BasicsHold, PTL
-----------------------------------------------------------------------------
(* What the page asked for is left alone by the steps of others. *)
Keeps(t, u) ==
  /\ FromTab(u) <=> FromTab(t)
  /\ FromTab(t) => /\ u.op = t.op /\ u.key = t.key /\ u.patch = t.patch
                   /\ u.since = t.since /\ u.items = t.items
Elsewhere == tab' = tab /\ \A h \in Slots : Keeps(task[h], task'[h])

LEMMA SameKeeps ==
  ASSUME NEW t, NEW u, Same(t, u), t.pc # "idle", u.pc # "idle"
  PROVE  Keeps(t, u)
  BY IdleTyped DEF Keeps, Same, FromTab
LEMMA OthersKeep ==
  ASSUME NEW t, NEW u, t = Idle \/ t.from # "tab", u = Idle \/ u.from # "tab"
  PROVE  Keeps(t, u)
  BY DEF Keeps, FromTab
LEMMA KeepsTurn ==
  ASSUME TypeInv, NEW a \in Actors, NEW u, task' = [task EXCEPT ![a] = u], Keeps(task[a], u) \/ a \notin Slots
  PROVE  \A h \in Slots : Keeps(task[h], task'[h])
<1>1. \A b \in Actors : task'[b] = IF b = a THEN u ELSE task[b] BY DEF TypeInv
<1>2. ASSUME NEW h \in Slots PROVE Keeps(task[h], task'[h])
  <2>1. PICK v : v = task'[h] OBVIOUS
  <2>2. CASE h = a
    <3>1. v = u BY <1>1, <2>1, <2>2
    <3> QED BY <2>1, <2>2, <3>1
  <2>3. CASE h # a
    <3>1. v = task[h] BY <1>1, <2>1, <2>3 DEF Actors
    <3>2. Keeps(task[h], v) BY <3>1 DEF Keeps
    <3> QED BY <2>1, <3>2
  <2> QED BY <2>2, <2>3
<1> QED BY <1>2
LEMMA TaskSameKeeps ==
  ASSUME task' = task
  PROVE  \A h \in Slots : Keeps(task[h], task'[h])
  BY DEF Keeps

LEMMA BeginsKeeps ==
  ASSUME TypeInv, VaultInv, NEW a \in Actors, NEW t, Begins(a, t), t.from # "tab"
  PROVE  \A h \in Slots : Keeps(task[h], task'[h])
<1>1. PICK u : u = Fetched(t) OBVIOUS
<1>2. t \in TaskType /\ t.key \in Keys /\ task[a] = Idle /\ task' = [task EXCEPT ![a] = u]
  BY <1>1 DEF Begins, Starting
<1>3. Same(t, u) BY <1>1, <1>2, FetchedFacts DEF Follows, Waits
<1>4. u.from # "tab" BY <1>3 DEF Same
<1> QED BY <1>2, <1>4, OthersKeep, KeepsTurn
LEMMA RepacedKeeps ==
  ASSUME TypeInv, NEW a \in Actors, NEW pc \in Pcs, pc # "idle", task[a].pc # "idle",
         task' = [task EXCEPT ![a] = Repace(task[a], pc)]
  PROVE  \A h \in Slots : Keeps(task[h], task'[h])
<1>1. PICK u : u = Repace(task[a], pc) OBVIOUS
<1>2. task[a] \in TaskType BY DEF TypeInv
<1>3. Same(task[a], u) /\ u.pc = pc BY <1>1, <1>2, Repaced
<1> QED BY <1>1, <1>3, SameKeeps, KeepsTurn

LEMMA AnsweredElsewhere ==
  ASSUME Basics, NEW h \in Slots, Answered(h)
  PROVE  Elsewhere
<1>1. h \in Actors /\ TypeInv BY DEF Actors, Basics
<1>2. PICK u : u = Idle OBVIOUS
<1>3. tab' = tab /\ task[h].from # "tab" /\ task' = [task EXCEPT ![h] = u] BY <1>2 DEF Answered
<1> QED BY <1>1, <1>2, <1>3, OthersKeep, KeepsTurn DEF Elsewhere
LEMMA RequestElsewhere ==
  ASSUME Basics, NEW h \in Slots, NEW s \in Servers, Put(h, s) \/ Get(h, s) \/ Disconnect(h, s) \/ Callback(h, s)
  PROVE  Elsewhere
<1>1. h \in Actors /\ TypeInv /\ VaultInv BY DEF Actors, Basics
<1>2. tab' = tab /\ \E t : Begins(h, t) /\ t.from = "api"
  BY <1>1, PutTyped, GetTyped, DisconnectTyped, CallbackTyped
<1> QED BY <1>1, <1>2, BeginsKeeps DEF Elsewhere

LEMMA StepsElsewhere ==
  ASSUME Basics, NEW a \in Actors, Steps(a)
  PROVE  Elsewhere
<1>1. TypeInv /\ WorkInv /\ VaultInv BY DEF Basics
<1>2. tab' = tab BY DEF Steps, Reread, Load, SaveSecrets, WriteRow, Saves, Fails
<1>3. CASE Reread(a)
  <2>1. PICK u : u = Fetched(task[a]) OBVIOUS
  <2>2. task' = [task EXCEPT ![a] = u] /\ Same(task[a], u) /\ u.pc # "idle" /\ task[a].pc = "read"
    BY <1>1, <1>3, <2>1, RereadFacts DEF Follows, Waits, Reread
  <2> QED BY <1>1, <1>2, <2>2, SameKeeps, KeepsTurn DEF Elsewhere
<1>4. CASE Load(a)
  <2>1. task[a].pc = "load" /\ task[a] \in TaskType BY <1>1, <1>4 DEF Load, TypeInv
  <2>2. PICK u : /\ task' = [task EXCEPT ![a] = u]
                 /\ \/ u = Repace(task[a], "failed")
                    \/ Follows(task[a], u, [config |-> task[a].credential.config, secrets |-> db.vault[task[a].key]])
    BY <1>1, <1>4, LoadFacts
  <2>3. Same(task[a], u) /\ u.pc # "idle" BY <2>1, <2>2, Repaced DEF Follows, Pcs
  <2> QED BY <1>1, <1>2, <2>1, <2>2, <2>3, SameKeeps, KeepsTurn DEF Elsewhere
<1>5. CASE SaveSecrets(a)
  BY <1>1, <1>2, <1>5, SaveSecretsTyped, RepacedKeeps DEF Elsewhere, SaveSecrets, Pcs
<1>6. CASE WriteRow(a)
  BY <1>1, <1>2, <1>6, WriteRowTyped, RepacedKeeps DEF Elsewhere, WriteRow, Pcs
<1>7. CASE Saves(a)
  BY <1>1, <1>2, <1>7, SavesTyped, RepacedKeeps DEF Elsewhere, Saves, Pcs
<1>8. CASE Fails(a)
  BY <1>1, <1>2, <1>8, FailsTyped, RepacedKeeps DEF Elsewhere, Fails, Pcs
<1> QED BY <1>3, <1>4, <1>5, <1>6, <1>7, <1>8 DEF Steps

LEMMA ProcessElsewhere ==
  ASSUME Basics, NEW s \in Servers, Process(s)
  PROVE  Elsewhere
<1>1. s \in Actors /\ s \notin Slots /\ TypeInv /\ WorkInv /\ VaultInv BY ActorsAssumption DEF Actors, Basics
<1>2. tab' = tab
  BY DEF Process, StartUp, MigrateSelect, MigrateSave, MigrateWrite, Build, Seed, Seeded, Crash
<1>3. CASE StartUp(s) \/ MigrateSelect(s) \/ MigrateSave(s) \/ MigrateWrite(s) \/ Build(s)
  <2>1. task' = task BY <1>3 DEF StartUp, MigrateSelect, MigrateSave, MigrateWrite, Build
  <2> QED BY <1>2, <2>1, TaskSameKeeps DEF Elsewhere
<1>4. CASE Seed(s)
  <2>1. PICK t : Begins(s, t) BY <1>1, <1>4, SeedTyped
  <2>2. t.from # "tab" BY <1>1, <2>1 DEF Begins, Starting
  <2> QED BY <1>1, <1>2, <2>1, <2>2, BeginsKeeps DEF Elsewhere
<1>5. CASE Seeded(s)
  <2>1. task' = [task EXCEPT ![s] = Idle] BY <1>5 DEF Seeded
  <2> QED BY <1>1, <1>2, <2>1, KeepsTurn DEF Elsewhere
<1>6. CASE Crash(s)
  <2>1. \A a \in Actors : task'[a] = AfterCrash(s, a) BY <1>1, <1>6, CrashTyped
  <2>2. ASSUME NEW h \in Slots PROVE Keeps(task[h], task'[h])
    <3>1. h \in Actors /\ h # s BY <1>1 DEF Actors
    <3>2. PICK v : v = task'[h] OBVIOUS
    <3>3. CASE h \in Lost(s)
      <4>1. v = Repace(task[h], "failed") /\ task[h].pc # "idle" /\ task[h] \in TaskType
        BY <1>1, <2>1, <3>1, <3>2, <3>3 DEF AfterCrash, Lost, Working, TypeInv
      <4>2. Same(task[h], v) /\ v.pc = "failed" BY <4>1, Repaced DEF Pcs
      <4> QED BY <3>2, <4>1, <4>2, SameKeeps
    <3>4. CASE h \notin Lost(s)
      <4>1. v = task[h] BY <2>1, <3>1, <3>2, <3>4 DEF AfterCrash
      <4>2. Keeps(task[h], v) BY <4>1 DEF Keeps
      <4> QED BY <3>2, <4>2
    <3> QED BY <3>3, <3>4
  <2> QED BY <1>2, <2>2 DEF Elsewhere
<1> QED BY <1>3, <1>4, <1>5, <1>6 DEF Process

LEMMA ApartElsewhere ==
  ASSUME OauthStart \/ Tick \/ UNCHANGED vars
  PROVE  Elsewhere
<1>1. tab' = tab /\ task' = task BY DEF OauthStart, Tick, vars
<1> QED BY <1>1, TaskSameKeeps DEF Elsewhere

-----------------------------------------------------------------------------
(* What was expected at a version and not yet stored stays so, until there *)
(* is another version. *)
Steady(key) ==
  /\ history'.version[key] >= history.version[key]
  /\ history'.version[key] = history.version[key] =>
       /\ history'.expect[key] \subseteq history.expect[key]
       /\ history'.expect[key] # {} /\ Disturbed(key) => Disturbed(key)'
Past(t) == t.pc \in {"write", "audit"}
Lasts(t, u, key) == Writes(t, key) /\ Past(t) => Writes(u, key) /\ Past(u)
MoveLasts(s, key) ==
  MovesAt(s, key) /\ ~history.clean[key] => (\E x \in server'[s].moving : x.key = key) /\ ~history'.clean[key]

LEMMA DisturbedLasts ==
  ASSUME NEW key, \A a \in Actors : Lasts(task[a], task'[a], key), \A s \in Servers : MoveLasts(s, key)
  PROVE  Disturbed(key) => Disturbed(key)'
<1>1. ASSUME NEW a \in Actors, Writes(task[a], key), task[a].pc \in {"write", "audit"} PROVE Disturbed(key)'
  <2>1. Writes(task'[a], key) /\ task'[a].pc \in {"write", "audit"} BY <1>1 DEF Lasts, Past
  <2> QED BY <2>1 DEF Disturbed, Writes
<1>2. ASSUME NEW s \in Servers, MovesAt(s, key), ~history.clean[key] PROVE Disturbed(key)'
  <2>1. (\E x \in server'[s].moving : x.key = key) /\ ~history'.clean[key] BY <1>2 DEF MoveLasts
  <2> QED BY <2>1 DEF Disturbed, MovesAt
<1> QED BY <1>1, <1>2 DEF Disturbed
LEMMA LastsSteady ==
  ASSUME TypeInv, NEW key \in Keys, history'.version[key] = history.version[key],
         history'.expect[key] \subseteq history.expect[key],
         \A a \in Actors : Lasts(task[a], task'[a], key), \A s \in Servers : MoveLasts(s, key)
  PROVE  Steady(key)
<1>1. history.version[key] \in Nat BY DEF TypeInv, HistoryType
<1> QED BY <1>1, DisturbedLasts DEF Steady
LEMMA TurnLasts ==
  ASSUME TypeInv, NEW a \in Actors, NEW u, task' = [task EXCEPT ![a] = u], NEW key, Lasts(task[a], u, key)
  PROVE  \A b \in Actors : Lasts(task[b], task'[b], key)
<1>1. \A b \in Actors : task'[b] = IF b = a THEN u ELSE task[b] BY DEF TypeInv
<1>2. ASSUME NEW b \in Actors PROVE Lasts(task[b], task'[b], key)
  <2>1. PICK v : v = task'[b] OBVIOUS
  <2>2. v = task[b] \/ (b = a /\ v = u) BY <1>1, <2>1
  <2>3. Lasts(task[b], v, key) BY <2>2 DEF Lasts
  <2> QED BY <2>1, <2>3
<1> QED BY <1>2
LEMMA MovesLast ==
  ASSUME NEW key, \A s \in Servers : server'[s].moving = server[s].moving,
         history'.clean[key] => history.clean[key] \/ \A s \in Servers : ~MovesAt(s, key)
  PROVE  \A s \in Servers : MoveLasts(s, key)
  BY DEF MoveLasts, MovesAt
LEMMA ServerSame ==
  ASSUME server' = server
  PROVE  \A s \in Servers : server'[s].moving = server[s].moving
  OBVIOUS

(* a save begins: where something moves, it is not alone *)
LEMMA EntersLast ==
  ASSUME TypeInv, WorkInv, NEW key \in Keys, NEW keys, Enters(history', keys)
  PROVE  /\ history'.version[key] = history.version[key] /\ history'.expect[key] \subseteq history.expect[key]
         /\ history'.clean[key] => history.clean[key] \/ \A s \in Servers : ~MovesAt(s, key)
<1>1. history'.clean[key] = IF key \in keys THEN Writers(key) = {} ELSE history.clean[key] BY DEF Enters
<1>2. CASE Writers(key) = {}
  <2>1. \A s \in Servers : \A x \in server[s].todo : x.key # key BY <1>2, NoWriters
  <2>2. \A s \in Servers : server[s].moving \subseteq server[s].todo BY DEF WorkInv, Ready
  <2>3. \A s \in Servers : ~MovesAt(s, key) BY <2>1, <2>2 DEF MovesAt
  <2> QED BY <2>3 DEF Enters
<1>3. CASE Writers(key) # {}
  <2>1. history'.clean[key] => history.clean[key] BY <1>1, <1>3
  <2> QED BY <2>1 DEF Enters
<1> QED BY <1>2, <1>3

LEMMA BeginsSteady ==
  ASSUME Basics, NEW a \in Actors, NEW t, Begins(a, t), NEW key \in Keys
  PROVE  Steady(key)
<1>1. TypeInv /\ WorkInv BY DEF Basics
<1>2. PICK u : u = Fetched(t) OBVIOUS
<1>3. task' = [task EXCEPT ![a] = u] /\ task[a].pc = "idle" BY <1>2 DEF Begins, Starting
<1>4. Lasts(task[a], u, key) BY <1>3 DEF Lasts, Past
<1>5. \A b \in Actors : Lasts(task[b], task'[b], key) BY <1>1, <1>3, <1>4, TurnLasts
<1>6. \A s \in Servers : server'[s].moving = server[s].moving BY DEF Begins
<1>7. /\ history'.version[key] = history.version[key] /\ history'.expect[key] \subseteq history.expect[key]
      /\ history'.clean[key] => history.clean[key] \/ \A s \in Servers : ~MovesAt(s, key)
  <2>1. CASE t.op = "get" BY <2>1 DEF Begins, SameOrder
  <2>2. CASE t.op # "get"
    <3>1. PICK keys : keys = {t.key} OBVIOUS
    <3>2. Enters(history', keys) BY <2>2, <3>1 DEF Begins
    <3> QED BY <1>1, <3>2, EntersLast
  <2> QED BY <2>1, <2>2
<1>8. \A s \in Servers : MoveLasts(s, key) BY <1>6, <1>7, MovesLast
<1> QED BY <1>1, <1>5, <1>7, <1>8, LastsSteady
LEMMA ListsSteady ==
  ASSUME Basics, NEW a \in Actors, NEW t, Lists(a, t), NEW key \in Keys
  PROVE  Steady(key)
<1>1. TypeInv BY DEF Basics
<1>2. task' = [task EXCEPT ![a] = t] /\ task[a].pc = "idle" /\ server' = server /\ history' = history BY DEF Lists
<1>3. Lasts(task[a], t, key) BY <1>2 DEF Lasts, Past
<1>4. \A b \in Actors : Lasts(task[b], task'[b], key) BY <1>1, <1>2, <1>3, TurnLasts
<1>5. \A s \in Servers : MoveLasts(s, key) BY <1>2, ServerSame, MovesLast
<1> QED BY <1>1, <1>2, <1>4, <1>5, LastsSteady
LEMMA EndsSteady ==
  ASSUME Basics, NEW a \in Actors, Ends(a), NEW key \in Keys
  PROVE  Steady(key)
<1>1. TypeInv BY DEF Basics
<1>2. PICK u : u = Idle OBVIOUS
<1>3. task' = [task EXCEPT ![a] = u] /\ task[a].pc \in {"answered", "failed"} /\ history' = history
  BY <1>2 DEF Ends
<1>4. Lasts(task[a], u, key) BY <1>3 DEF Lasts, Past
<1>5. \A b \in Actors : Lasts(task[b], task'[b], key) BY <1>1, <1>3, <1>4, TurnLasts
<1>6. \A s \in Servers : server'[s].moving = server[s].moving
  <2>1. CASE a \in Slots BY <2>1 DEF Ends
  <2>2. CASE a \in Servers BY <1>1, <2>2 DEF Ends, TypeInv
  <2> QED BY <2>1, <2>2 DEF Actors
<1>7. \A s \in Servers : MoveLasts(s, key) BY <1>3, <1>6, MovesLast
<1> QED BY <1>1, <1>3, <1>5, <1>7, LastsSteady
LEMMA ApartSteady ==
  ASSUME Basics, Apart, NEW key \in Keys
  PROVE  Steady(key)
<1>1. TypeInv BY DEF Basics
<1>2. \A a \in Actors : Lasts(task[a], task'[a], key) BY DEF Apart, Lasts
<1>3. \A s \in Servers : MoveLasts(s, key) BY ServerSame, MovesLast DEF Apart, SameOrder
<1> QED BY <1>1, <1>2, <1>3, LastsSteady DEF Apart, SameOrder

(* a request goes on, saves or fails *)
LEMMA StepsSteady ==
  ASSUME Basics, NEW a \in Actors, Steps(a), NEW key \in Keys
  PROVE  Steady(key)
<1>1. TypeInv /\ WorkInv /\ VaultInv BY DEF Basics
<1>2. server' = server BY DEF Steps, Reread, Load, SaveSecrets, WriteRow, Saves, Fails
<1>3. ASSUME NEW u, task' = [task EXCEPT ![a] = u], Lasts(task[a], u, key), history'.clean = history.clean,
             history'.version[key] = history.version[key], history'.expect[key] = history.expect[key]
      PROVE  Steady(key)
  <2>1. \A b \in Actors : Lasts(task[b], task'[b], key) BY <1>1, <1>3, TurnLasts
  <2>2. \A s \in Servers : MoveLasts(s, key) BY <1>2, <1>3, ServerSame, MovesLast
  <2> QED BY <1>1, <1>3, <2>1, <2>2, LastsSteady
<1>4. history.version[key] \in Nat BY <1>1 DEF TypeInv, HistoryType
<1>5. CASE Reread(a)
  <2>1. PICK u : u = Fetched(task[a]) OBVIOUS
  <2>2. task' = [task EXCEPT ![a] = u] /\ task[a].pc = "read" /\ history' = history BY <1>5, <2>1 DEF Reread
  <2>3. Lasts(task[a], u, key) BY <2>2 DEF Lasts, Past
  <2> QED BY <1>3, <2>2, <2>3
<1>6. CASE Load(a)
  <2>1. task[a].pc = "load" /\ history' = history BY <1>6 DEF Load
  <2>2. PICK u : task' = [task EXCEPT ![a] = u] BY <1>1, <1>6, LoadFacts
  <2>3. Lasts(task[a], u, key) BY <2>1 DEF Lasts, Past
  <2> QED BY <1>3, <2>1, <2>2, <2>3
<1>7. CASE SaveSecrets(a)
  <2>1. PICK u : u = Repace(task[a], "write") OBVIOUS
  <2>2. task[a].pc = "save" /\ history' = history /\ task' = [task EXCEPT ![a] = u]
    BY <1>1, <1>7, <2>1, SaveSecretsTyped DEF SaveSecrets
  <2>3. Lasts(task[a], u, key) BY <2>2 DEF Lasts, Past
  <2> QED BY <1>3, <2>2, <2>3
<1>8. CASE WriteRow(a)
  <2>1. PICK u : u = Repace(task[a], "audit") OBVIOUS
  <2>2. task[a].pc = "write" /\ history' = history /\ task' = [task EXCEPT ![a] = u]
    BY <1>1, <1>8, <2>1, WriteRowTyped DEF WriteRow
  <2>3. Same(task[a], u) /\ u.pc = "audit" BY <1>1, <2>1, Repaced DEF Pcs, TypeInv
  <2>4. Lasts(task[a], u, key) BY <2>2, <2>3 DEF Lasts, Past, Writes, Same
  <2> QED BY <1>3, <2>2, <2>4
<1>9. CASE Saves(a)
  <2>1. /\ task' = [task EXCEPT ![a] = Repace(task[a], "answered")] /\ history'.clean = history.clean
        /\ history'.version[key] = IF key = task[a].key THEN history.version[key] + 1 ELSE history.version[key]
        /\ key # task[a].key => history'.expect[key] = history.expect[key]
    BY <1>1, <1>9, SavesTyped
  <2>2. CASE key = task[a].key BY <1>4, <2>1, <2>2 DEF Steady
  <2>3. CASE key # task[a].key
    <3>1. PICK u : u = Repace(task[a], "answered") OBVIOUS
    <3>2. Lasts(task[a], u, key) BY <2>3 DEF Lasts, Writes
    <3> QED BY <1>3, <2>1, <2>3, <3>1, <3>2
  <2> QED BY <2>2, <2>3
<1>10. CASE Fails(a)
  <2>1. /\ task' = [task EXCEPT ![a] = Repace(task[a], "failed")]
        /\ IF task[a].op \in Writing THEN Doubts(history', {task[a].key}) ELSE history' = history
    BY <1>1, <1>10, FailsTyped
  <2>2. CASE Writes(task[a], key)
    <3>1. history'.version[key] = history.version[key] + 1 BY <2>1, <2>2 DEF Writes, Doubts
    <3> QED BY <1>4, <3>1 DEF Steady
  <2>3. CASE ~Writes(task[a], key)
    <3>1. PICK u : u = Repace(task[a], "failed") OBVIOUS
    <3>2. Lasts(task[a], u, key) BY <2>3 DEF Lasts
    <3>3. CASE task[a].op \notin Writing BY <1>3, <2>1, <3>1, <3>2, <3>3
    <3>4. CASE task[a].op \in Writing
      <4>1. Working(a) BY <1>10 DEF Fails, Working
      <4>2. key # task[a].key BY <2>3, <3>4, <4>1 DEF Writes, Working
      <4>3. /\ history'.clean = history.clean /\ history'.version[key] = history.version[key]
            /\ history'.expect[key] = history.expect[key]
        BY <2>1, <3>4, <4>2 DEF Doubts
      <4> QED BY <1>3, <2>1, <3>1, <3>2, <4>3
    <3> QED BY <3>3, <3>4
  <2> QED BY <2>2, <2>3
<1> QED BY <1>5, <1>6, <1>7, <1>8, <1>9, <1>10 DEF Steps

LEMMA ProcessSteady ==
  ASSUME Basics, NEW s \in Servers, Process(s), NEW key \in Keys
  PROVE  Steady(key)
<1>1. TypeInv /\ WorkInv /\ VaultInv /\ s \in Actors BY DEF Basics, Actors
<1>2. history.version[key] \in Nat BY <1>1 DEF TypeInv, HistoryType
<1>3. Ready(server[s]) BY <1>1 DEF WorkInv
<1>4. ASSUME task' = task PROVE \A a \in Actors : Lasts(task[a], task'[a], key) BY <1>4 DEF Lasts
<1>5. ASSUME NEW r, server' = [server EXCEPT ![s] = r], r.moving = server[s].moving
      PROVE  \A q \in Servers : server'[q].moving = server[q].moving
  <2>1. \A q \in Servers : server'[q] = IF q = s THEN r ELSE server[q] BY <1>1, <1>5 DEF TypeInv
  <2> QED BY <1>5, <2>1
<1>6. CASE StartUp(s)
  <2>1. UNCHANGED <<task, history>> /\ server[s].stage = "down" BY <1>1, <1>6, StartUpTyped
  <2>2. PICK r : server' = [server EXCEPT ![s] = r] /\ r.moving = {} BY <1>1, <1>6, StartUpTyped
  <2>3. server[s].moving = {} BY <1>3, <2>1 DEF Ready
  <2>4. \A q \in Servers : MoveLasts(q, key) BY <1>5, <2>1, <2>2, <2>3, MovesLast
  <2> QED BY <1>1, <1>4, <2>1, <2>4, LastsSteady
<1>7. CASE MigrateSelect(s)
  <2>1. task' = task BY <1>1, <1>7, MigrateSelectTyped
  <2>2. PICK r : server' = [server EXCEPT ![s] = r] /\ r.moving = server[s].moving BY <1>1, <1>7, MigrateSelectTyped
  <2>3. PICK keys : Enters(history', keys) BY <1>1, <1>7, MigrateSelectTyped
  <2>4. /\ history'.version[key] = history.version[key] /\ history'.expect[key] \subseteq history.expect[key]
        /\ history'.clean[key] => history.clean[key] \/ \A q \in Servers : ~MovesAt(q, key)
    BY <1>1, <2>3, EntersLast
  <2>5. \A q \in Servers : MoveLasts(q, key) BY <1>5, <2>2, <2>4, MovesLast
  <2> QED BY <1>1, <1>4, <2>1, <2>4, <2>5, LastsSteady
<1>8. CASE MigrateSave(s)
  <2>1. UNCHANGED <<task, history>> /\ server[s].moving = {} BY <1>1, <1>8, MigrateSaveTyped
  <2>2. PICK r : server' = [server EXCEPT ![s] = r] BY <1>1, <1>8, MigrateSaveTyped
  <2>3. \A q \in Servers : server'[q] = IF q = s THEN r ELSE server[q] BY <1>1, <2>2 DEF TypeInv
  <2>4. \A q \in Servers : MoveLasts(q, key) BY <2>1, <2>3 DEF MoveLasts, MovesAt
  <2> QED BY <1>1, <1>4, <2>1, <2>4, LastsSteady
<1>9. CASE MigrateWrite(s)
  <2>1. task' = task BY <1>1, <1>9, MigrateWriteTyped
  <2>2. PICK x \in server[s].moving :
              /\ x \in MoveType
              /\ db'.vault = db.vault
              /\ db'.rows = [db.rows EXCEPT ![x.key] = [config |-> db.rows[x.key].config, ref |-> InVault]]
              /\ \E r \in ServerType :
                   /\ server' = [server EXCEPT ![s] = r]
                   /\ r.backend = server[s].backend /\ r.todo = server[s].todo \ {x} /\ r.moving = {}
                   /\ r.stage = server[s].stage /\ r.seeds = server[s].seeds
              /\ history'.writes = history.writes /\ history'.clean = history.clean
              /\ history'.version = history.version
              /\ \A k \in Keys : history'.expect[k] = IF k = x.key /\ ~history.clean[k] THEN {} ELSE history.expect[k]
    BY <1>1, <1>9, MigrateWriteTyped
  <2>3. PICK r : server' = [server EXCEPT ![s] = r] BY <2>2
  <2>4. \A q \in Servers : server'[q] = IF q = s THEN r ELSE server[q] BY <1>1, <2>3 DEF TypeInv
  <2>5. \A y \in server[s].moving : y = x BY <1>3 DEF Ready
  <2>6. history'.expect[key] = IF key = x.key /\ ~history.clean[key] THEN {} ELSE history.expect[key] BY <2>2
  <2>7. CASE key = x.key /\ ~history.clean[key]
    BY <1>2, <2>2, <2>6, <2>7 DEF Steady
  <2>8. CASE key # x.key \/ history.clean[key]
    <3>1. history'.expect[key] = history.expect[key] BY <2>6, <2>8
    <3>2. \A q \in Servers : MoveLasts(q, key) BY <2>2, <2>4, <2>5, <2>8 DEF MoveLasts, MovesAt
    <3> QED BY <1>1, <1>4, <2>1, <2>2, <3>1, <3>2, LastsSteady
  <2> QED BY <2>7, <2>8
<1>10. CASE Build(s)
  <2>1. UNCHANGED <<task, history>> BY <1>1, <1>10, BuildTyped
  <2>2. PICK r : server' = [server EXCEPT ![s] = r] /\ r.moving = server[s].moving BY <1>1, <1>10, BuildTyped
  <2>3. \A q \in Servers : MoveLasts(q, key) BY <1>5, <2>1, <2>2, MovesLast
  <2> QED BY <1>1, <1>4, <2>1, <2>3, LastsSteady
<1>11. CASE Seed(s)
  <2>1. \E t : Begins(s, t) BY <1>1, <1>11, SeedTyped
  <2> QED BY <1>1, <2>1, BeginsSteady
<1>12. CASE Seeded(s)
  <2>1. Ends(s) BY <1>1, <1>12, SeededTyped
  <2> QED BY <1>1, <2>1, EndsSteady
<1>13. CASE Crash(s)
  <2>1. /\ server' = [server EXCEPT ![s] = Fresh] /\ \A a \in Actors : task'[a] = AfterCrash(s, a)
        /\ Doubts(history', LostKeys(s))
    BY <1>1, <1>13, CrashTyped
  <2>2. CASE key \in LostKeys(s)
    <3>1. history'.version[key] = history.version[key] + 1 BY <2>1, <2>2 DEF Doubts
    <3> QED BY <1>2, <3>1 DEF Steady
  <2>3. CASE key \notin LostKeys(s)
    <3>1. /\ history'.version[key] = history.version[key] /\ history'.expect[key] = history.expect[key]
          /\ history'.clean = history.clean
      BY <2>1, <2>3 DEF Doubts
    <3>2. ASSUME NEW a \in Actors, Writes(task[a], key) PROVE task'[a] = task[a]
      <4>1. Working(a) BY <3>2 DEF Writes, Working
      <4>2. a \notin Lost(s) BY <2>3, <3>2 DEF LostKeys, Writes
      <4>3. a # s
        <5> SUFFICES ASSUME a = s PROVE FALSE OBVIOUS
        <5>1. task[a].server = s BY <1>1, <4>1, WorkingFacts
        <5> QED BY <4>1, <4>2, <5>1 DEF Lost
      <4> QED BY <2>1, <4>2, <4>3 DEF AfterCrash
    <3>3. \A a \in Actors : Lasts(task[a], task'[a], key) BY <3>2 DEF Lasts
    <3>4. \A q \in Servers : q # s => server'[q] = server[q] BY <1>1, <2>1 DEF TypeInv
    <3>5. ~(MovesAt(s, key) /\ ~history.clean[key])
      <4>1. server[s].moving \subseteq server[s].todo BY <1>3 DEF Ready
      <4> QED BY <2>3, <4>1 DEF LostKeys, MovesAt
    <3>6. \A q \in Servers : MoveLasts(q, key) BY <3>1, <3>4, <3>5 DEF MoveLasts, MovesAt
    <3> QED BY <1>1, <3>1, <3>3, <3>6, LastsSteady
  <2> QED BY <2>2, <2>3
<1> QED BY <1>6, <1>7, <1>8, <1>9, <1>10, <1>11, <1>12, <1>13 DEF Process

LEMMA StepSteady ==
  ASSUME Basics, [Next]_vars, NEW key \in Keys
  PROVE  Steady(key)
<1>1. TypeInv /\ WorkInv /\ VaultInv BY DEF Basics
<1>2. ASSUME NEW h \in Slots, Request(h) PROVE Steady(key)
  <2>1. h \in Actors BY DEF Actors
  <2>2. CASE Answered(h) \/ TabAnswered(h)
    <3>1. Ends(h) BY <1>1, <2>2, AnsweredTyped, TabAnsweredTyped
    <3> QED BY <2>1, <3>1, EndsSteady
  <2>3. ASSUME NEW s \in Servers, Put(h, s) \/ Get(h, s) \/ Disconnect(h, s) \/ Callback(h, s) PROVE Steady(key)
    <3>1. \E t : Begins(h, t) BY <1>1, <2>3, PutTyped, GetTyped, DisconnectTyped, CallbackTyped
    <3> QED BY <2>1, <3>1, BeginsSteady
  <2>4. ASSUME NEW s \in Servers, TabSends(h, s) PROVE Steady(key)
    <3>1. (\E t : Lists(h, t)) \/ (\E t : Begins(h, t)) BY <1>1, <2>4, TabSendsTyped
    <3> QED BY <2>1, <3>1, ListsSteady, BeginsSteady
  <2> QED BY <1>2, <2>2, <2>3, <2>4 DEF Request
<1>3. ASSUME NEW a \in Actors, Steps(a) PROVE Steady(key) BY <1>3, StepsSteady
<1>4. ASSUME NEW s \in Servers, Process(s) PROVE Steady(key) BY <1>4, ProcessSteady
<1>5. CASE Visit \/ Choose \/ Edit \/ Save \/ TabDisconnect \/ OauthStart \/ Tick
  <2>1. Apart
    BY <1>1, <1>5, VisitTyped, ChooseTyped, EditTyped, SaveTyped, TabDisconnectTyped, OauthStartTyped, TickTyped
  <2> QED BY <2>1, ApartSteady
<1>6. CASE TabConnect
  <2>1. UNCHANGED <<db, server, history>> /\ \A a \in Actors : task'[a] = Orphan(a) BY <1>1, <1>6, TabConnectTyped
  <2>2. \A a \in Actors : Lasts(task[a], task'[a], key) BY <1>1, <2>1, OrphanFacts DEF Lasts, Past, Writes
  <2>3. \A s \in Servers : MoveLasts(s, key) BY <2>1, ServerSame, MovesLast
  <2> QED BY <1>1, <2>1, <2>2, <2>3, LastsSteady
<1>7. CASE UNCHANGED vars
  <2>1. Apart BY <1>7 DEF vars, Apart, SameOrder
  <2> QED BY <2>1, ApartSteady
<1> QED BY <1>2, <1>3, <1>4, <1>5, <1>6, <1>7 DEF Next, Page, Actors

-----------------------------------------------------------------------------
(* What the page knows stays known. *)
LEMMA SteadyFacts ==
  ASSUME TypeInv, TypeInv', NEW key \in Keys, Steady(key), NEW n \in Nat, n <= history.version[key]
  PROVE  /\ n <= history'.version[key]
         /\ n = history'.version[key] =>
              /\ n = history.version[key] /\ history'.expect[key] \subseteq history.expect[key]
              /\ history'.expect[key] # {} /\ Disturbed(key) => Disturbed(key)'
<1>1. history.version[key] \in Nat /\ history'.version[key] \in Nat BY DEF TypeInv, HistoryType
<1> QED BY <1>1 DEF Steady
LEMMA VersionNat ==
  ASSUME TypeInv, NEW key \in Keys
  PROVE  history.version[key] \in Nat /\ history.version[key] # None
<1>1. history.version[key] \in Nat BY DEF TypeInv, HistoryType
<1> QED BY <1>1, NoneAssumption

LEMMA KnowsLater ==
  ASSUME TypeInv, TypeInv', NEW key \in Keys, Steady(key), NEW n \in Nat \cup {None}, Knows(n, key)
  PROVE  Knows(n, key)'
<1>1. n # None => n \in Nat /\ n <= history.version[key] BY DEF Knows
<1>2. n # None => n <= history'.version[key] BY <1>1, SteadyFacts
<1> QED BY <1>2 DEF Knows
LEMMA ListedLater ==
  ASSUME TypeInv, TypeInv', Steady(Sheets(User)), NEW items, NEW n \in Nat \cup {None}, ListedAs(items, n)
  PROVE  ListedAs(items, n)'
<1>1. PICK key \in Keys : key = Sheets(User) BY KeyFacts
<1>2. Knows(n, key) BY <1>1 DEF ListedAs
<1>3. Knows(n, key)' BY <1>1, <1>2, KnowsLater
<1>4. ASSUME n = history'.version[key], NEW c \in history'.expect[key]
      PROVE  Disturbed(key)' \/ ("google_sheets" \in items <=> c.secrets # NoSecrets)
  <2>1. n \in Nat /\ n # None BY <1>4, NoneAssumption DEF TypeInv, HistoryType
  <2>2. n <= history.version[key] BY <1>2, <2>1 DEF Knows
  <2>3. /\ n = history.version[key] /\ c \in history.expect[key]
        /\ Disturbed(key) => Disturbed(key)'
    BY <1>1, <1>4, <2>1, <2>2, SteadyFacts
  <2>4. Disturbed(key) \/ ("google_sheets" \in items <=> c.secrets # NoSecrets)
    BY <1>1, <2>3 DEF ListedAs
  <2> QED BY <2>3, <2>4
<1> QED BY <1>1, <1>3, <1>4 DEF ListedAs
LEMMA ShownLater ==
  ASSUME TypeInv, TypeInv', NEW key \in Keys, NEW p, Steady(key), ShownAs(p, key),
         tab'.since = tab.since, tab'.form = tab.form, OauthConnect(p) => tab'.email = tab.email
  PROVE  ShownAs(p, key)'
<1>1. PICK n \in Nat \cup {None} : n = tab.since BY DEF TypeInv, TabType
<1>2. Knows(n, key) BY <1>1 DEF ShownAs
<1>3. Knows(n, key)' BY <1>2, KnowsLater
<1>4. ASSUME n = history'.version[key], NEW c \in history'.expect[key]
      PROVE  \/ Disturbed(key)'
             \/ /\ tab'.form = FormOf(p, c)
                /\ OauthConnect(p) => (tab'.email <=> c.config.connectedEmail # None)
  <2>1. n \in Nat /\ n # None BY <1>4, NoneAssumption DEF TypeInv, HistoryType
  <2>2. n <= history.version[key] BY <1>2, <2>1 DEF Knows
  <2>3. /\ n = history.version[key] /\ c \in history.expect[key]
        /\ Disturbed(key) => Disturbed(key)'
    BY <1>4, <2>1, <2>2, SteadyFacts
  <2>4. \/ Disturbed(key)
        \/ /\ tab.form = FormOf(p, c)
           /\ OauthConnect(p) => (tab.email <=> c.config.connectedEmail # None)
    BY <1>1, <2>3 DEF ShownAs
  <2> QED BY <2>3, <2>4
<1>5. OauthConnect(p) => tab'.form = NoForm BY DEF ShownAs
<1> QED BY <1>1, <1>3, <1>4, <1>5 DEF ShownAs
LEMMA DisconnectedLater ==
  ASSUME TypeInv, TypeInv', Steady(Sheets(User)), NEW n \in Nat \cup {None}, DisconnectedAt(n)
  PROVE  DisconnectedAt(n)'
<1>1. PICK key \in Keys : key = Sheets(User) BY KeyFacts
<1>2. CASE n = None BY <1>2 DEF DisconnectedAt
<1>3. CASE n # None
  <2>1. PICK m \in Nat : m = n + 1 BY <1>3
  <2>2. m <= history.version[key] /\ (m = history.version[key] => \A c \in history.expect[key] : c = Disconnected)
    BY <1>1, <1>3, <2>1 DEF DisconnectedAt
  <2>3. /\ m <= history'.version[key]
        /\ m = history'.version[key] => \A c \in history'.expect[key] : c = Disconnected
    BY <1>1, <2>2, SteadyFacts
  <2> QED BY <1>1, <2>1, <2>3 DEF DisconnectedAt
<1> QED BY <1>2, <1>3

Unanswered(t, u) == u.pc = "answered" /\ u.op = "disconnect" => t.pc = "answered"
LEMMA AskedLater ==
  ASSUME TypeInv, TypeInv', Steady(Sheets(User)), NEW t, NEW u \in TaskType, FromTab(t), Keeps(t, u), Unanswered(t, u),
         AskedAs(t)
  PROVE  AskedAs(u)'
<1>0. PICK items : items = u.items OBVIOUS
<1>1. PICK n \in Nat \cup {None} : n = u.since BY DEF TaskType
<1>2. u.op = t.op /\ u.key = t.key /\ u.patch = t.patch /\ t.since = n /\ t.items = items BY <1>0, <1>1 DEF Keeps
<1>3. PICK key \in Keys : key = Sheets(User) BY KeyFacts
<1>4. u.op \in {"get", "put", "list", "disconnect"} BY <1>2 DEF AskedAs
<1>5. CASE u.op = "list"
  <2>1. u.key = key /\ ListedAs(items, n) BY <1>2, <1>3, <1>5 DEF AskedAs
  <2>2. ListedAs(items, n)' BY <2>1, ListedLater
  <2> QED BY <1>0, <1>1, <1>3, <1>4, <1>5, <2>1, <2>2 DEF AskedAs
<1>6. CASE u.op = "disconnect"
  <2>1. u.key = key /\ u.patch = Disconnected /\ Knows(n, key) BY <1>2, <1>3, <1>6 DEF AskedAs
  <2>2. Knows(n, key)' BY <1>3, <2>1, KnowsLater
  <2>3. u.pc = "answered" => DisconnectedAt(n)'
    <3>1. u.pc = "answered" => DisconnectedAt(n) BY <1>2, <1>6 DEF AskedAs, Unanswered
    <3> QED BY <3>1, DisconnectedLater
  <2> QED BY <1>1, <1>3, <1>4, <1>6, <2>1, <2>2, <2>3 DEF AskedAs
<1>7. CASE u.op \notin {"list", "disconnect"} BY <1>4, <1>7 DEF AskedAs
<1> QED BY <1>5, <1>6, <1>7

LEMMA LoadingFacts ==
  /\ Loading <=> \/ \E h \in Slots : FromTab(task[h]) /\ task[h].op = "get"
                 \/ \E w \in tab.wants : w.op = "get"
  /\ Loading' <=> \/ \E h \in Slots : FromTab(task'[h]) /\ task'[h].op = "get"
                  \/ \E w \in tab'.wants : w.op = "get"
  BY DEF Loading, Asked, FromTab
LEMMA LoadingSame ==
  ASSUME Elsewhere
  PROVE  Loading' <=> Loading
  BY LoadingFacts DEF Elsewhere, Keeps

(* what a step has to show of the page *)
LEMMA PageStep ==
  ASSUME TypeInv', TypeInv, PageInv, \A key \in Keys : Steady(key),
         Shown', ListedAs(tab.items, tab.listed)', WantsSheets',
         \A h \in Slots : FromTab(task'[h]) =>
           AskedAs(task[h])' \/ (FromTab(task[h]) /\ Keeps(task[h], task'[h]) /\ Unanswered(task[h], task'[h]))
  PROVE  PageInv'
<1>1. ASSUME NEW h \in Slots, FromTab(task'[h]) PROVE AskedAs(task[h])'
  <2>1. CASE FromTab(task[h]) /\ Keeps(task[h], task'[h]) /\ Unanswered(task[h], task'[h])
    <3>1. PICK t, u \in TaskType : t = task[h] /\ u = task'[h] BY DEF TypeInv, Actors
    <3>2. AskedAs(t) BY <2>1, <3>1 DEF PageInv
    <3>3. Steady(Sheets(User)) BY KeyFacts
    <3>4. AskedAs(u)' BY <2>1, <3>1, <3>2, <3>3, AskedLater
    <3> QED BY <3>1, <3>4
  <2> QED BY <1>1, <2>1
<1> QED BY <1>1 DEF PageInv, FromTab
LEMMA ListSame ==
  ASSUME TypeInv', TypeInv, PageInv, \A key \in Keys : Steady(key),
         tab'.items = tab.items, tab'.listed = tab.listed
  PROVE  ListedAs(tab.items, tab.listed)'
<1>1. PICK n \in Nat \cup {None} : n = tab.listed BY DEF TypeInv, TabType
<1>2. PICK items : items = tab.items /\ ListedAs(items, n) BY <1>1 DEF PageInv
<1>3. ListedAs(items, n)' BY <1>2, ListedLater, KeyFacts
<1> QED BY <1>1, <1>2, <1>3
LEMMA ShownSame ==
  ASSUME TypeInv', TypeInv, PageInv, \A key \in Keys : Steady(key), Loading => Loading',
         tab'.failed = tab.failed, tab'.edited = tab.edited, tab'.late = tab.late, tab'.provider = tab.provider,
         tab'.since = tab.since, tab'.form = tab.form, OauthConnect(tab.provider) => tab'.email = tab.email
  PROVE  Shown'
<1>1. PICK p \in Providers, key \in Keys : p = tab.provider /\ key = <<User, p>> BY KeyFacts DEF TypeInv, TabType
<1>2. ~tab.failed /\ ~tab.edited /\ ~tab.late /\ ~Loading => ShownAs(p, key) BY <1>1 DEF PageInv, Shown
<1>3. ShownAs(p, key) => ShownAs(p, key)' BY <1>1, ShownLater
<1> QED BY <1>1, <1>2, <1>3 DEF Shown

LEMMA ElsewherePage ==
  ASSUME Basics, Basics', PageInv, Elsewhere, \A key \in Keys : Steady(key),
         \A h \in Slots : FromTab(task'[h]) => AskedAs(task[h])' \/ Unanswered(task[h], task'[h])
  PROVE  PageInv'
<1>1. TypeInv /\ TypeInv' BY DEF Basics
<1>2. tab' = tab /\ \A h \in Slots : Keeps(task[h], task'[h]) BY DEF Elsewhere
<1>3. Shown' BY <1>1, <1>2, LoadingSame, ShownSame
<1>4. ListedAs(tab.items, tab.listed)' BY <1>1, <1>2, ListSame
<1>5. WantsSheets' BY <1>2 DEF PageInv, WantsSheets
<1>6. \A h \in Slots : FromTab(task'[h]) => FromTab(task[h]) BY <1>2 DEF Keeps
<1> QED BY <1>1, <1>2, <1>3, <1>4, <1>5, <1>6, PageStep

LEMMA TurnUnanswered ==
  ASSUME TypeInv, NEW a \in Actors, NEW u, task' = [task EXCEPT ![a] = u], Unanswered(task[a], u)
  PROVE  \A h \in Slots : Unanswered(task[h], task'[h])
<1>1. \A b \in Actors : task'[b] = IF b = a THEN u ELSE task[b] BY DEF TypeInv
<1>2. ASSUME NEW h \in Slots PROVE Unanswered(task[h], task'[h])
  <2>1. PICK v : v = task'[h] OBVIOUS
  <2>2. v = task[h] \/ (h = a /\ v = u) BY <1>1, <2>1 DEF Actors
  <2>3. Unanswered(task[h], v) BY <2>2 DEF Unanswered
  <2> QED BY <2>1, <2>3
<1> QED BY <1>2
LEMMA FetchedUnanswered ==
  ASSUME NEW t, NEW u, NEW v, NEW c, Follows(t, u, c) \/ Waits(t, u)
  PROVE  Unanswered(v, u)
  BY DEF Unanswered, Follows, Waits, Same
LEMMA BeginsUnanswered ==
  ASSUME TypeInv, VaultInv, NEW a \in Actors, NEW t, Begins(a, t)
  PROVE  \A h \in Slots : Unanswered(task[h], task'[h])
<1>1. PICK u : u = Fetched(t) OBVIOUS
<1>2. t \in TaskType /\ t.key \in Keys /\ task' = [task EXCEPT ![a] = u] BY <1>1 DEF Begins, Starting
<1>3. PICK c : c = Current(t.key) OBVIOUS
<1>4. Follows(t, u, c) \/ Waits(t, u) BY <1>1, <1>2, <1>3, FetchedFacts
<1>5. Unanswered(task[a], u) BY <1>4, FetchedUnanswered
<1> QED BY <1>2, <1>5, TurnUnanswered
LEMMA IdleUnanswered ==
  ASSUME TypeInv, NEW a \in Actors, task' = [task EXCEPT ![a] = Idle]
  PROVE  \A h \in Slots : Unanswered(task[h], task'[h])
<1>1. PICK u : u = Idle OBVIOUS
<1>2. Unanswered(task[a], u) BY <1>1, IdleTyped DEF Unanswered
<1> QED BY <1>1, <1>2, TurnUnanswered
LEMMA SameUnanswered ==
  ASSUME task' = task
  PROVE  \A h \in Slots : Unanswered(task[h], task'[h])
  BY DEF Unanswered

(* the requests of others, and what goes on by itself *)
LEMMA OthersPage ==
  ASSUME Basics, Basics', PageInv, \A key \in Keys : Steady(key), NEW h \in Slots, NEW s \in Servers,
         Put(h, s) \/ Get(h, s) \/ Disconnect(h, s) \/ Callback(h, s)
  PROVE  PageInv'
<1>1. h \in Actors /\ TypeInv /\ VaultInv BY DEF Actors, Basics
<1>2. Elsewhere BY RequestElsewhere
<1>3. \A g \in Slots : Unanswered(task[g], task'[g])
  <2>1. \E t : Begins(h, t) BY <1>1, PutTyped, GetTyped, DisconnectTyped, CallbackTyped
  <2> QED BY <1>1, <2>1, BeginsUnanswered
<1> QED BY <1>2, <1>3, ElsewherePage

LEMMA SavesPage ==
  ASSUME Basics, Basics', PageInv, \A key \in Keys : Steady(key), NEW a \in Actors, Saves(a)
  PROVE  PageInv'
<1>1. TypeInv /\ TypeInv' /\ WorkInv BY DEF Basics
<1>2. Elsewhere BY StepsElsewhere DEF Steps
<1>3. PICK u \in TaskType : u = Repace(task[a], "answered") BY <1>1, Repaced DEF TypeInv, Pcs
<1>4. task' = [task EXCEPT ![a] = u] BY <1>1, <1>3, SavesTyped
<1>5. \A b \in Actors : task'[b] = IF b = a THEN u ELSE task[b] BY <1>1, <1>4 DEF TypeInv
<1>6. Same(task[a], u) /\ u.pc = "answered" BY <1>1, <1>3, Repaced DEF TypeInv, Pcs
<1>7. ASSUME NEW h \in Slots, FromTab(task'[h]) PROVE AskedAs(task[h])' \/ Unanswered(task[h], task'[h])
  <2>1. CASE h # a
    <3>1. task'[h] = task[h] BY <1>5, <2>1 DEF Actors
    <3>2. PICK v : v = task'[h] OBVIOUS
    <3>3. Unanswered(task[h], v) BY <3>1, <3>2 DEF Unanswered
    <3> QED BY <3>2, <3>3
  <2>2. CASE h = a /\ u.op # "disconnect"
    <3>1. Unanswered(task[a], u) BY <2>2 DEF Unanswered
    <3> QED BY <1>5, <2>2, <3>1
  <2>3. CASE h = a /\ u.op = "disconnect"
    <3>1. FromTab(task[a]) BY <1>2, <1>7, <2>3 DEF Elsewhere, Keeps
    <3>2. AskedAs(task[a]) BY <2>3, <3>1 DEF PageInv
    <3>3. PICK n \in Nat \cup {None} : n = u.since BY DEF TaskType
    <3>4. PICK key \in Keys : key = Sheets(User) BY KeyFacts
    <3>5. u.key = key /\ u.patch = Disconnected /\ Knows(n, key)
      BY <1>6, <2>3, <3>2, <3>3, <3>4 DEF AskedAs, Same
    <3>6. Knows(n, key)' BY <1>1, <3>5, KnowsLater
    <3>7. /\ history'.version[key] = history.version[key] + 1
          /\ history'.expect[key] = IF history.clean[key] THEN Made(task[a]) ELSE {}
      <4>1. key = task[a].key BY <1>6, <3>5 DEF Same
      <4>2. \A k \in Keys :
              /\ history'.version[k] = IF k = task[a].key THEN history.version[k] + 1 ELSE history.version[k]
              /\ history'.expect[k] = IF k = task[a].key THEN IF history.clean[k] THEN Made(task[a]) ELSE {}
                                      ELSE history.expect[k]
        BY <1>1, SavesTyped
      <4> QED BY <4>1, <4>2
    <3>8. Made(task[a]) = {Disconnected}
      <4>1. task[a].patch = Disconnected /\ task[a].op = "disconnect" BY <1>6, <2>3, <3>5 DEF Same
      <4> QED BY <4>1, OauthFacts DEF Made
    <3>9. DisconnectedAt(n)'
      <4>1. history.version[key] \in Nat BY <1>1 DEF TypeInv, HistoryType
      <4>2. n # None => n + 1 <= history'.version[key] BY <3>5, <3>7, <4>1 DEF Knows
      <4>3. \A c \in history'.expect[key] : c = Disconnected BY <3>7, <3>8
      <4> QED BY <3>4, <4>2, <4>3 DEF DisconnectedAt
    <3>10. AskedAs(u)' BY <2>3, <3>3, <3>4, <3>5, <3>6, <3>9 DEF AskedAs
    <3>11. PICK v : v = task'[h] OBVIOUS
    <3>12. v = u BY <1>5, <2>3, <3>11
    <3>13. AskedAs(v)' BY <3>10, <3>12
    <3> QED BY <3>11, <3>13
  <2> QED BY <2>1, <2>2, <2>3
<1> QED BY <1>2, <1>7, ElsewherePage

LEMMA StepsPage ==
  ASSUME Basics, Basics', PageInv, \A key \in Keys : Steady(key), NEW a \in Actors, Steps(a)
  PROVE  PageInv'
<1>1. TypeInv /\ WorkInv /\ VaultInv BY DEF Basics
<1>2. Elsewhere BY StepsElsewhere
<1>3. CASE Saves(a) BY <1>3, SavesPage
<1>4. ASSUME NEW u, task' = [task EXCEPT ![a] = u], Unanswered(task[a], u) PROVE PageInv'
  <2>1. \A h \in Slots : Unanswered(task[h], task'[h]) BY <1>1, <1>4, TurnUnanswered
  <2> QED BY <1>2, <2>1, ElsewherePage
<1>5. CASE Reread(a)
  <2>1. PICK u : u = Fetched(task[a]) OBVIOUS
  <2>2. PICK c : c = Current(task[a].key) OBVIOUS
  <2>3. task' = [task EXCEPT ![a] = u] /\ (Follows(task[a], u, c) \/ Waits(task[a], u))
    BY <1>1, <1>5, <2>1, <2>2, RereadFacts
  <2>4. Unanswered(task[a], u) BY <2>3, FetchedUnanswered
  <2> QED BY <1>4, <2>3, <2>4
<1>6. CASE Load(a)
  <2>1. PICK c : c = [config |-> task[a].credential.config, secrets |-> db.vault[task[a].key]] OBVIOUS
  <2>2. PICK u : /\ task' = [task EXCEPT ![a] = u]
                 /\ u = Repace(task[a], "failed") \/ Follows(task[a], u, c)
    BY <1>1, <1>6, <2>1, LoadFacts
  <2>3. CASE u = Repace(task[a], "failed")
    <3>1. u.pc = "failed" BY <1>1, <2>3, Repaced DEF Pcs, TypeInv
    <3>2. Unanswered(task[a], u) BY <3>1 DEF Unanswered
    <3> QED BY <1>4, <2>2, <3>2
  <2>4. CASE Follows(task[a], u, c)
    <3>1. Unanswered(task[a], u) BY <2>4, FetchedUnanswered
    <3> QED BY <1>4, <2>2, <3>1
  <2> QED BY <2>2, <2>3, <2>4
<1>7. CASE SaveSecrets(a) \/ WriteRow(a) \/ Fails(a)
  <2>1. PICK pc \in {"write", "audit", "failed"} : task' = [task EXCEPT ![a] = Repace(task[a], pc)]
    BY <1>1, <1>7, SaveSecretsTyped, WriteRowTyped, FailsTyped
  <2>2. PICK u : u = Repace(task[a], pc) OBVIOUS
  <2>3. u.pc # "answered" BY <1>1, <2>2, Repaced DEF Pcs, TypeInv
  <2>4. Unanswered(task[a], u) BY <2>3 DEF Unanswered
  <2> QED BY <1>4, <2>1, <2>2, <2>4
<1> QED BY <1>3, <1>5, <1>6, <1>7 DEF Steps

LEMMA ProcessPage ==
  ASSUME Basics, Basics', PageInv, \A key \in Keys : Steady(key), NEW s \in Servers, Process(s)
  PROVE  PageInv'
<1>1. s \in Actors /\ s \notin Slots /\ TypeInv /\ WorkInv /\ VaultInv BY ActorsAssumption DEF Actors, Basics
<1>2. Elsewhere BY ProcessElsewhere
<1>3. \A h \in Slots : Unanswered(task[h], task'[h])
  <2>1. CASE StartUp(s) \/ MigrateSelect(s) \/ MigrateSave(s) \/ MigrateWrite(s) \/ Build(s)
    <3>1. task' = task BY <2>1 DEF StartUp, MigrateSelect, MigrateSave, MigrateWrite, Build
    <3> QED BY <3>1, SameUnanswered
  <2>2. CASE Seed(s)
    <3>1. PICK t : Begins(s, t) BY <1>1, <2>2, SeedTyped
    <3> QED BY <1>1, <3>1, BeginsUnanswered
  <2>3. CASE Seeded(s) BY <1>1, <2>3, IdleUnanswered DEF Seeded
  <2>4. CASE Crash(s)
    <3>1. \A a \in Actors : task'[a] = AfterCrash(s, a) BY <1>1, <2>4, CrashTyped
    <3>2. ASSUME NEW h \in Slots PROVE Unanswered(task[h], task'[h])
      <4>1. PICK v : v = task'[h] OBVIOUS
      <4>2. h \in Actors /\ task[h] \in TaskType BY <1>1 DEF Actors, TypeInv
      <4>3. v = Idle \/ v = Repace(task[h], "failed") \/ v = task[h] BY <3>1, <4>1, <4>2 DEF AfterCrash
      <4>4. v.pc # "answered" \/ v = task[h] BY <4>2, <4>3, Repaced, IdleTyped DEF Pcs
      <4>5. Unanswered(task[h], v) BY <4>4 DEF Unanswered
      <4> QED BY <4>1, <4>5
    <3> QED BY <3>2
  <2> QED BY <2>1, <2>2, <2>3, <2>4 DEF Process
<1> QED BY <1>2, <1>3, ElsewherePage

LEMMA ApartPage ==
  ASSUME Basics, Basics', PageInv, \A key \in Keys : Steady(key), OauthStart \/ Tick \/ UNCHANGED vars
  PROVE  PageInv'
<1>1. task' = task BY DEF OauthStart, Tick, vars
<1> QED BY <1>1, ApartElsewhere, SameUnanswered, ElsewherePage

(* The steps of the page.  What it knows of is not of a save. *)
LEMMA ShownAfresh ==
  ASSUME TypeInv', PageInv, tab'.since = None, Loading => Loading',
         tab'.failed = tab.failed, tab'.edited = tab.edited, tab'.late = tab.late, tab'.provider = tab.provider,
         tab'.form = tab.form
  PROVE  Shown'
<1>1. PICK p \in Providers, key \in Keys : p = tab'.provider /\ key = <<User, p>> BY KeyFacts DEF TypeInv, TabType
<1>2. ~tab'.failed /\ ~tab'.edited /\ ~tab'.late /\ ~Loading' => (OauthConnect(p) => tab'.form = NoForm)
  BY <1>1 DEF PageInv, Shown, ShownAs
<1>3. history'.version[key] \in Nat BY <1>1 DEF TypeInv, HistoryType
<1>4. None # history'.version[key] BY <1>3, NoneAssumption
<1> QED BY <1>1, <1>2, <1>4 DEF Shown, ShownAs, Knows
LEMMA UnknownList ==
  ASSUME TypeInv', tab'.listed = None
  PROVE  ListedAs(tab.items, tab.listed)'
<1>1. PICK key \in Keys : key = Sheets(User) BY KeyFacts
<1>2. history'.version[key] \in Nat BY <1>1 DEF TypeInv, HistoryType
<1>3. None # history'.version[key] BY <1>2, NoneAssumption
<1> QED BY <1>1, <1>3 DEF ListedAs, Knows
LEMMA OauthForm ==
  ASSUME NEW p, OauthConnect(p)
  PROVE  \A c : FormOf(p, c) = NoForm
  BY DEF OauthConnect, FormOf, NoForm, Shows, Fields

LEMMA ClosedPage ==
  ASSUME TypeInv', tab' = Closed, \A h \in Slots : ~FromTab(task'[h])
  PROVE  PageInv'
<1>1. tab'.provider = "stripe" /\ tab'.since = None /\ tab'.listed = None /\ tab'.wants = {} BY DEF Closed
<1>2. PICK key : key = <<User, "stripe">> OBVIOUS
<1>3. key \in Keys BY <1>2, KeyFacts DEF Providers
<1>4. history'.version[key] \in Nat BY <1>3 DEF TypeInv, HistoryType
<1>5. None # history'.version[key] BY <1>4, NoneAssumption
<1>6. Shown' BY <1>1, <1>2, <1>5 DEF Shown, ShownAs, Knows, OauthConnect
<1>7. ListedAs(tab.items, tab.listed)' BY <1>1, UnknownList
<1>8. WantsSheets' BY <1>1 DEF WantsSheets
<1> QED BY <1>6, <1>7, <1>8 DEF PageInv, FromTab

LEMMA PageAlone ==
  ASSUME Basics, Basics', PageInv, \A key \in Keys : Steady(key), task' = task, Shown',
         tab'.items = tab.items, tab'.listed = tab.listed, WantsSheets'
  PROVE  PageInv'
<1>1. TypeInv /\ TypeInv' BY DEF Basics
<1>2. ListedAs(tab.items, tab.listed)' BY <1>1, ListSame
<1>3. \A h \in Slots : FromTab(task'[h]) => FromTab(task[h]) /\ Keeps(task[h], task'[h]) /\ Unanswered(task[h], task'[h])
  BY TaskSameKeeps, SameUnanswered
<1> QED BY <1>1, <1>2, <1>3, PageStep

LEMMA MovesPage ==
  ASSUME Basics, Basics', PageInv, \A key \in Keys : Steady(key),
         Visit \/ Choose \/ Edit \/ Save \/ TabDisconnect \/ TabConnect
  PROVE  PageInv'
<1>1. TypeInv /\ TypeInv' /\ tab \in TabType BY DEF Basics, TypeInv
<1>2. CASE Visit
  <2>1. PICK p \in Providers :
          tab' = [Closed EXCEPT !.open = TRUE, !.provider = p,
                    !.wants = {Wants("list", "stripe", NoPatch), Wants("get", "stripe", NoPatch), Wants("get", p, NoPatch)}]
    BY <1>1, <1>2 DEF Visit, TypeInv, Scenario
  <2>2. PICK v : v = Wants("get", p, NoPatch) OBVIOUS
  <2>3. v.op = "get" BY <2>2 DEF Wants
  <2>4. v \in tab'.wants /\ tab'.listed = None BY <2>1, <2>2 DEF Closed
  <2>5. Shown' BY <2>3, <2>4, LoadingFacts DEF Shown
  <2>6. ListedAs(tab.items, tab.listed)' BY <1>1, <2>4, UnknownList
  <2>7. tab'.wants = {Wants("list", "stripe", NoPatch), Wants("get", "stripe", NoPatch), Wants("get", p, NoPatch)}
    BY <2>1 DEF Closed
  <2>8. WantsSheets' BY <2>7 DEF WantsSheets, Wants
  <2>9. task' = task BY <1>2 DEF Visit
  <2>10. \A h \in Slots : FromTab(task'[h]) => FromTab(task[h]) /\ Keeps(task[h], task'[h]) /\ Unanswered(task[h], task'[h])
    BY <2>9, TaskSameKeeps, SameUnanswered
  <2> QED BY <1>1, <2>5, <2>6, <2>8, <2>10, PageStep
<1>3. CASE Choose
  <2>1. PICK p : tab' = [tab EXCEPT !.provider = p, !.wants = @ \cup {Wants("get", p, NoPatch)}]
    BY <1>3 DEF Choose, Chosen
  <2>2. PICK v : v = Wants("get", p, NoPatch) OBVIOUS
  <2>3. v.op = "get" BY <2>2 DEF Wants
  <2>4. tab'.wants = tab.wants \cup {v} /\ tab'.items = tab.items /\ tab'.listed = tab.listed
    BY <1>1, <2>1, <2>2 DEF TabType
  <2>5. Shown' BY <2>3, <2>4, LoadingFacts DEF Shown
  <2>6. WantsSheets' BY <2>3, <2>4 DEF WantsSheets, PageInv
  <2> QED BY <1>3, <2>4, <2>5, <2>6, PageAlone DEF Choose
<1>4. CASE Edit
  <2>1. tab'.edited = TRUE /\ tab'.wants = tab.wants /\ tab'.items = tab.items /\ tab'.listed = tab.listed
    BY <1>1, <1>4 DEF Edit, TabType
  <2>2. Shown' BY <2>1 DEF Shown
  <2>3. WantsSheets' BY <2>1 DEF WantsSheets, PageInv
  <2> QED BY <1>4, <2>1, <2>2, <2>3, PageAlone DEF Edit
<1>5. ASSUME NEW v, v.op # "disconnect" \/ (v.provider = "google_sheets" /\ v.patch = Disconnected), task' = task,
             tab' = [tab EXCEPT !.busy = TRUE, !.since = None, !.wants = @ \cup {v}]
      PROVE  PageInv'
  <2>1. /\ tab'.since = None /\ tab'.wants = tab.wants \cup {v} /\ tab'.items = tab.items /\ tab'.listed = tab.listed
        /\ tab'.failed = tab.failed /\ tab'.edited = tab.edited /\ tab'.late = tab.late
        /\ tab'.provider = tab.provider /\ tab'.form = tab.form
    BY <1>1, <1>5 DEF TabType
  <2>2. Loading => Loading' BY <1>5, <2>1, LoadingFacts
  <2>3. Shown' BY <1>1, <2>1, <2>2, ShownAfresh
  <2>4. WantsSheets' BY <1>5, <2>1 DEF WantsSheets, PageInv
  <2> QED BY <1>5, <2>1, <2>3, <2>4, PageAlone
<1>6. CASE Save
  <2>1. PICK v : /\ tab' = [tab EXCEPT !.busy = TRUE, !.since = None, !.wants = @ \cup {v}]
                 /\ \E c : v = Wants("put", tab.provider, c)
    BY <1>6 DEF Save
  <2>2. v.op = "put" BY <2>1 DEF Wants
  <2> QED BY <1>5, <1>6, <2>1, <2>2 DEF Save
<1>7. CASE TabDisconnect
  <2>1. PICK v : v = Wants("disconnect", tab.provider, Disconnected) OBVIOUS
  <2>2. v.provider = "google_sheets" /\ v.patch = Disconnected BY <1>7, <2>1 DEF Wants, TabDisconnect, OauthConnect
  <2> QED BY <1>5, <1>7, <2>1, <2>2 DEF TabDisconnect
<1>8. CASE TabConnect
  <2>1. tab' = Closed /\ \A a \in Actors : task'[a] = Orphan(a) BY <1>1, <1>8, TabConnectTyped
  <2>2. ASSUME NEW h \in Slots PROVE ~FromTab(task'[h])
    <3>1. PICK v : v = task'[h] OBVIOUS
    <3>2. h \in Actors /\ task[h] \in TaskType BY <1>1 DEF Actors, TypeInv
    <3>3. v = Orphan(h) BY <2>1, <3>1, <3>2
    <3>4. CASE FromTab(task[h])
      <4>1. v = [task[h] EXCEPT !.from = "api"] BY <3>3, <3>4 DEF Orphan, FromTab
      <4>2. v.from = "api" BY <3>2, <4>1 DEF TaskType
      <4> QED BY <3>1, <4>2 DEF FromTab
    <3>5. CASE ~FromTab(task[h])
      <4>1. v = task[h] BY <3>3, <3>5 DEF Orphan, FromTab
      <4>2. ~FromTab(v) BY <3>5, <4>1 DEF FromTab
      <4> QED BY <3>1, <4>2
    <3> QED BY <3>4, <3>5
  <2> QED BY <1>1, <2>1, <2>2, ClosedPage
<1> QED BY <1>2, <1>3, <1>4, <1>6, <1>7, <1>8

(* one slot of the page takes a turn *)
LEMMA TurnAsked ==
  ASSUME TypeInv, NEW a \in Slots, NEW u, task' = [task EXCEPT ![a] = u], FromTab(u) => AskedAs(u)'
  PROVE  \A h \in Slots : FromTab(task'[h]) =>
           AskedAs(task[h])' \/ (FromTab(task[h]) /\ Keeps(task[h], task'[h]) /\ Unanswered(task[h], task'[h]))
<1>1. \A b \in Actors : task'[b] = IF b = a THEN u ELSE task[b] BY DEF TypeInv
<1>2. ASSUME NEW h \in Slots, FromTab(task'[h])
      PROVE  AskedAs(task[h])' \/ (FromTab(task[h]) /\ Keeps(task[h], task'[h]) /\ Unanswered(task[h], task'[h]))
  <2>1. PICK v : v = task'[h] OBVIOUS
  <2>2. CASE h = a
    <3>1. v = u BY <1>1, <2>1, <2>2 DEF Actors
    <3>2. FromTab(v) BY <1>2, <2>1
    <3>3. AskedAs(v)' BY <3>1, <3>2
    <3> QED BY <2>1, <3>3
  <2>3. CASE h # a
    <3>1. v = task[h] BY <1>1, <2>1, <2>3 DEF Actors
    <3>2. FromTab(v) BY <1>2, <2>1
    <3>3. FromTab(task[h]) /\ Keeps(task[h], v) /\ Unanswered(task[h], v) BY <3>1, <3>2 DEF Keeps, Unanswered
    <3> QED BY <2>1, <3>3
  <2> QED BY <2>2, <2>3
<1> QED BY <1>2
LEMMA TurnLoading ==
  ASSUME TypeInv, NEW a \in Slots, NEW u, task' = [task EXCEPT ![a] = u],
         FromTab(task[a]) => task[a].op # "get" \/ (FromTab(u) /\ u.op = "get"),
         \A w \in tab.wants : w \in tab'.wants \/ w.op # "get" \/ (FromTab(u) /\ u.op = "get")
  PROVE  Loading => Loading'
<1>1. \A b \in Actors : task'[b] = IF b = a THEN u ELSE task[b] BY DEF TypeInv
<1>2. task'[a] = u BY <1>1 DEF Actors
<1>3. FromTab(u) /\ u.op = "get" => Loading'
  <2>1. PICK v : v = task'[a] OBVIOUS
  <2>2. FromTab(u) /\ u.op = "get" => FromTab(v) /\ v.op = "get" BY <1>2, <2>1
  <2> QED BY <2>1, <2>2, LoadingFacts
<1>4. ASSUME NEW h \in Slots, FromTab(task[h]), task[h].op = "get", h # a PROVE Loading'
  <2>1. PICK v : v = task'[h] OBVIOUS
  <2>2. v = task[h] BY <1>1, <1>4, <2>1 DEF Actors
  <2>3. FromTab(v) /\ v.op = "get" BY <1>4, <2>2 DEF FromTab
  <2> QED BY <2>1, <2>3, LoadingFacts
<1>5. ASSUME NEW w \in tab.wants, w.op = "get" PROVE Loading' BY <1>3, <1>5, LoadingFacts
<1> QED BY <1>3, <1>4, <1>5, LoadingFacts

(* What the page asks for leaves. *)
LEMMA ListsAsked ==
  ASSUME Basics, OrderInv, NEW h \in Slots, NEW t, Lists(h, t)
  PROVE  AskedAs(t)'
<1>1. TypeInv /\ WorkInv /\ VaultInv BY DEF Basics
<1>2. PICK key \in Keys : key = Sheets(User) /\ key = <<User, "google_sheets">> BY KeyFacts
<1>3. PICK items : items = t.items OBVIOUS
<1>4. PICK n : n = t.since OBVIOUS
<1>5. t.op = "list" /\ t.key = key /\ n = (IF Writers(key) = {} THEN history.version[key] ELSE None) /\ history' = history
  BY <1>2, <1>4 DEF Lists
<1>6. history.version[key] \in Nat /\ history.version[key] # None BY <1>1, VersionNat
<1>7. Knows(n, key)' BY <1>5, <1>6 DEF Knows
<1>8. ASSUME n = history.version[key], NEW c \in history.expect[key]
      PROVE  "google_sheets" \in items <=> c.secrets # NoSecrets
  <2>1. Writers(key) = {} BY <1>5, <1>6, <1>8
  <2>2. ~Disturbed(key) BY <1>1, <2>1, NoWriters
  <2>3. Current(key) = c BY <1>8, <2>2 DEF OrderInv, Ordered, StoredAs
  <2>4. "google_sheets" \in items <=> db.rows[key] # None /\ db.rows[key].ref # None
    BY <1>2, <1>3 DEF Lists, Listed, Providers
  <2>5. db.rows[key] # None /\ db.rows[key].ref # None <=> Current(key).secrets # NoSecrets
    BY <1>1, CurrentFacts DEF NoCredential
  <2> QED BY <2>3, <2>4, <2>5
<1>9. ListedAs(items, n)' BY <1>2, <1>5, <1>7, <1>8 DEF ListedAs
<1> QED BY <1>2, <1>3, <1>4, <1>5, <1>9 DEF AskedAs

LEMMA SentAsked ==
  ASSUME Basics, PageInv, NEW h \in Slots, NEW t, Begins(h, t), NEW w \in tab.wants,
         t.patch = w.patch, t.op = w.op, t.key = <<User, w.provider>>, NEW u, u = Fetched(t)
  PROVE  /\ u.op = t.op /\ u.from = t.from /\ u # Idle
         /\ AskedAs(u)'
<1>1. TypeInv /\ VaultInv /\ w \in WantType BY DEF Basics, TypeInv, TabType
<1>2. t \in TaskType /\ t.key \in Keys /\ t.op \in Writing \cup {"get"} BY DEF Begins, Starting
<1>3. PICK c : c = Current(t.key) OBVIOUS
<1>4. Follows(t, u, c) \/ Waits(t, u) BY <1>1, <1>2, <1>3, FetchedFacts
<1>5. Same(t, u) /\ u.pc # "idle" /\ (u.pc = "answered" => t.op \in {"get", "seed"})
  BY <1>4 DEF Follows, Waits
<1>6. u.op = t.op /\ u.from = t.from /\ u # Idle BY <1>5, IdleTyped DEF Same
<1>7. PICK n : n = u.since OBVIOUS
<1>8. PICK key \in Keys : key = Sheets(User) /\ key = <<User, "google_sheets">> BY KeyFacts
<1>9. u.op \in {"get", "put", "disconnect"} BY <1>1, <1>2, <1>6 DEF WantType, Writing
<1>10. CASE u.op = "disconnect"
  <2>1. w.provider = "google_sheets" /\ w.patch = Disconnected BY <1>6, <1>10 DEF PageInv, WantsSheets
  <2>2. u.key = key /\ t.key = key /\ u.patch = Disconnected BY <1>5, <1>8, <2>1 DEF Same
  <2>3. n = (IF Writers(key) = {} THEN history.version[key] ELSE None) BY <1>5, <1>7, <2>2 DEF Begins, Starting, Same
  <2>4. history.version[key] \in Nat /\ history.version[key] # None BY <1>1, VersionNat
  <2>5. history'.version = history.version BY DEF Begins, SameOrder, Enters
  <2>6. Knows(n, key)' BY <2>3, <2>4, <2>5 DEF Knows
  <2>7. u.pc # "answered" BY <1>5, <1>6, <1>10
  <2> QED BY <1>6, <1>7, <1>8, <1>10, <2>2, <2>6, <2>7 DEF AskedAs
<1> QED BY <1>6, <1>9, <1>10 DEF AskedAs

LEMMA SendsPage ==
  ASSUME Basics, Basics', OrderInv, PageInv, \A key \in Keys : Steady(key),
         NEW h \in Slots, NEW s \in Servers, TabSends(h, s)
  PROVE  PageInv'
<1>1. TypeInv /\ TypeInv' /\ VaultInv /\ tab \in TabType /\ task[h] = Idle BY DEF Basics, TypeInv, TabSends
<1>2. PICK w \in tab.wants :
        /\ tab' = [tab EXCEPT !.wants = @ \ {w}]
        /\ \/ w.op = "list" /\ \E t : Lists(h, t)
           \/ \E t : /\ Begins(h, t) /\ t.key[1] = User /\ t.patch = w.patch
                     /\ t.from = "tab" /\ t.op = w.op /\ t.key = <<User, w.provider>>
  BY <1>1, TabSendsTyped
<1>3. /\ tab'.wants = tab.wants \ {w} /\ tab'.items = tab.items /\ tab'.listed = tab.listed
      /\ tab'.failed = tab.failed /\ tab'.edited = tab.edited /\ tab'.late = tab.late
      /\ tab'.provider = tab.provider /\ tab'.form = tab.form /\ tab'.since = tab.since /\ tab'.email = tab.email
  BY <1>1, <1>2 DEF TabType
<1>4. ListedAs(tab.items, tab.listed)' BY <1>1, <1>3, ListSame
<1>5. WantsSheets' BY <1>3 DEF WantsSheets, PageInv
<1>6. ASSUME NEW u, task' = [task EXCEPT ![h] = u], FromTab(u) /\ u.op = w.op, AskedAs(u)'
      PROVE  PageInv'
  <2>1. Loading => Loading' BY <1>1, <1>3, <1>6, TurnLoading DEF FromTab
  <2>2. Shown' BY <1>1, <1>3, <2>1, ShownSame
  <2>3. \A g \in Slots : FromTab(task'[g]) =>
          AskedAs(task[g])' \/ (FromTab(task[g]) /\ Keeps(task[g], task'[g]) /\ Unanswered(task[g], task'[g]))
    BY <1>1, <1>6, TurnAsked
  <2> QED BY <1>1, <1>4, <1>5, <2>2, <2>3, PageStep
<1>7. CASE w.op = "list" /\ \E t : Lists(h, t)
  <2>1. PICK t : Lists(h, t) BY <1>7
  <2>2. task' = [task EXCEPT ![h] = t] /\ t.op = "list" /\ t.from = "tab" /\ t.pc = "answered" BY <2>1 DEF Lists
  <2>3. FromTab(t) BY <2>2, IdleTyped DEF FromTab
  <2>4. AskedAs(t)' BY <2>1, ListsAsked
  <2> QED BY <1>6, <1>7, <2>2, <2>3, <2>4
<1>8. CASE \E t : /\ Begins(h, t) /\ t.key[1] = User /\ t.patch = w.patch
                  /\ t.from = "tab" /\ t.op = w.op /\ t.key = <<User, w.provider>>
  <2>1. PICK t : /\ Begins(h, t) /\ t.patch = w.patch
                 /\ t.from = "tab" /\ t.op = w.op /\ t.key = <<User, w.provider>>
    BY <1>8
  <2>2. PICK u : u = Fetched(t) OBVIOUS
  <2>3. task' = [task EXCEPT ![h] = u] BY <2>1, <2>2 DEF Begins
  <2>4. u.op = t.op /\ u.from = t.from /\ u # Idle /\ AskedAs(u)' BY <2>1, <2>2, SentAsked
  <2>5. FromTab(u) /\ u.op = w.op BY <2>1, <2>4 DEF FromTab
  <2> QED BY <1>6, <2>3, <2>4, <2>5
<1> QED BY <1>2, <1>7, <1>8

(* An answer reaches the page. *)
LEMMA FilledShown ==
  ASSUME Basics, Basics', OrderInv, NEW h \in Slots, NEW key \in Keys, Steady(key),
         history' = history, task[h].op = "get", task[h].pc \in {"answered", "failed"}, task[h].from = "tab",
         task[h].key = key, tab' = Filled(task[h])
  PROVE  Shown' /\ tab'.items = tab.items /\ tab'.listed = tab.listed /\ tab'.wants = tab.wants
<1>1. TypeInv /\ TypeInv' /\ tab \in TabType BY DEF Basics, TypeInv
<1>2. PICK t \in TaskType : t = task[h] BY <1>1 DEF TypeInv, Actors
<1>3. key[1] = User
  <2>1. TaskHeld(t) BY <1>2 DEF Basics, OwnerInv, Actors
  <2> QED BY <1>2, <2>1 DEF TaskHeld
<1>4. PICK p \in Providers : p = key[2] /\ key = <<User, p>> BY <1>3, KeyFacts DEF Keys
<1>5. PICK found : found = IF t.pc = "answered" THEN t.credential ELSE NoCredential OBVIOUS
<1>6. tab' = [tab EXCEPT !.late = p # tab.provider, !.form = FormOf(p, found), !.draft = found, !.edited = FALSE,
                !.email = found.config.connectedEmail # None, !.failed = t.pc = "failed", !.since = t.since]
  BY <1>2, <1>4, <1>5 DEF Filled
<1>7. /\ tab'.items = tab.items /\ tab'.listed = tab.listed /\ tab'.wants = tab.wants /\ tab'.provider = tab.provider
      /\ tab'.form = FormOf(p, found) /\ tab'.since = t.since
      /\ tab'.failed <=> t.pc = "failed"
      /\ tab'.late <=> p # tab.provider
      /\ tab'.email <=> found.config.connectedEmail # None
  BY <1>1, <1>6 DEF TabType
<1>8. ASSUME ~tab'.failed, ~tab'.late PROVE ShownAs(p, key)'
  <2>1. t.pc = "answered" /\ found = t.credential BY <1>2, <1>5, <1>7, <1>8
  <2>2. Reads(t, key) BY <1>2, <2>1 DEF Reads
  <2>3. ReadAs(t, key) BY <1>2, <2>2 DEF OrderInv, Ordered
  <2>4. PICK n : n = t.since OBVIOUS
  <2>5. Knows(n, key)' BY <2>3, <2>4 DEF ReadAs, Knows
  <2>6. OauthConnect(p) => FormOf(p, found) = NoForm BY OauthForm
  <2>7. ASSUME n = history'.version[key], NEW c \in history'.expect[key] PROVE Disturbed(key)' \/ found = c
    <3>1. t.credential = c \/ Disturbed(key) BY <2>1, <2>3, <2>4, <2>7 DEF ReadAs, Finds
    <3>2. Disturbed(key) => Disturbed(key)' BY <2>7 DEF Steady
    <3> QED BY <2>1, <3>1, <3>2
  <2> QED BY <1>7, <2>4, <2>5, <2>6, <2>7 DEF ShownAs
<1>9. Shown' BY <1>4, <1>7, <1>8 DEF Shown
<1> QED BY <1>7, <1>9

LEMMA AnswersPage ==
  ASSUME Basics, Basics', OrderInv, PageInv, \A key \in Keys : Steady(key), NEW h \in Slots, TabAnswered(h)
  PROVE  PageInv'
<1>1. TypeInv /\ TypeInv' /\ WorkInv /\ tab \in TabType BY DEF Basics, TypeInv
<1>2. PICK t \in TaskType : t = task[h] BY <1>1 DEF TypeInv, Actors
<1>3. /\ t.pc \in {"answered", "failed"} /\ t.from = "tab" /\ task' = [task EXCEPT ![h] = Idle] /\ history' = history
      /\ tab' = IF t.op = "get" THEN Filled(t)
                ELSE IF t.pc = "failed" THEN [tab EXCEPT !.failed = TRUE, !.busy = FALSE]
                ELSE IF t.op = "list" THEN [tab EXCEPT !.items = t.items, !.listed = t.since, !.busy = FALSE]
                ELSE IF t.op = "put" THEN [tab EXCEPT !.wants = @ \cup {Wants("list", "stripe", NoPatch)}]
                ELSE [tab EXCEPT !.email = FALSE, !.wants = @ \cup {Wants("list", "stripe", NoPatch)},
                        !.since = IF ~OauthConnect(tab.provider) THEN @ ELSE IF t.since = None THEN None ELSE t.since + 1]
  BY <1>2 DEF TabAnswered
<1>4. FromTab(t) BY <1>3, IdleTyped DEF FromTab
<1>5. AskedAs(t) BY <1>2, <1>4 DEF PageInv
<1>6. PICK u : u = Idle OBVIOUS
<1>7. task' = [task EXCEPT ![h] = u] /\ ~FromTab(u) BY <1>3, <1>6 DEF FromTab
<1>8. \A g \in Slots : FromTab(task'[g]) =>
        AskedAs(task[g])' \/ (FromTab(task[g]) /\ Keeps(task[g], task'[g]) /\ Unanswered(task[g], task'[g]))
  BY <1>1, <1>7, TurnAsked
<1>9. ASSUME Shown', ListedAs(tab.items, tab.listed)', WantsSheets' PROVE PageInv' BY <1>1, <1>8, <1>9, PageStep
<1>10. CASE t.op = "get"
  <2>1. t.key \in Keys
    <3>1. Fits(h, t) BY <1>1, <1>2 DEF WorkInv, Actors
    <3> QED BY <1>3, <3>1 DEF Fits
  <2>2. PICK key \in Keys : key = t.key BY <2>1
  <2>3. Shown' /\ tab'.items = tab.items /\ tab'.listed = tab.listed /\ tab'.wants = tab.wants
    BY <1>2, <1>3, <1>10, <2>2, FilledShown
  <2>4. WantsSheets' BY <2>3 DEF WantsSheets, PageInv
  <2> QED BY <1>1, <1>9, <2>3, <2>4, ListSame
<1>11. CASE t.op # "get" /\ t.pc = "failed"
  <2>1. tab'.failed = TRUE /\ tab'.wants = tab.wants /\ tab'.items = tab.items /\ tab'.listed = tab.listed
    BY <1>1, <1>3, <1>11 DEF TabType
  <2>2. Shown' BY <2>1 DEF Shown
  <2>3. WantsSheets' BY <2>1 DEF WantsSheets, PageInv
  <2> QED BY <1>1, <1>9, <2>1, <2>2, <2>3, ListSame
<1>12. ASSUME t.op # "get", tab.wants \subseteq tab'.wants PROVE Loading => Loading'
  BY <1>1, <1>2, <1>7, <1>12, TurnLoading
<1>13. CASE t.op = "list" /\ t.pc = "answered"
  <2>1. /\ tab'.wants = tab.wants /\ tab'.items = t.items /\ tab'.listed = t.since
        /\ tab'.failed = tab.failed /\ tab'.edited = tab.edited /\ tab'.late = tab.late
        /\ tab'.provider = tab.provider /\ tab'.form = tab.form /\ tab'.since = tab.since /\ tab'.email = tab.email
    BY <1>1, <1>3, <1>13 DEF TabType
  <2>2. Shown' BY <1>1, <1>12, <1>13, <2>1, ShownSame
  <2>3. WantsSheets' BY <2>1 DEF WantsSheets, PageInv
  <2>4. PICK items : items = t.items OBVIOUS
  <2>5. PICK n \in Nat \cup {None} : n = t.since BY DEF TaskType
  <2>6. ListedAs(items, n) BY <1>5, <1>13, <2>4, <2>5 DEF AskedAs
  <2>7. ListedAs(items, n)' BY <1>1, <2>6, KeyFacts, ListedLater
  <2> QED BY <1>9, <2>1, <2>2, <2>3, <2>4, <2>5, <2>7
<1>14. PICK v : v = Wants("list", "stripe", NoPatch) OBVIOUS
<1>15. v.op = "list" BY <1>14 DEF Wants
<1>16. CASE t.op = "put" /\ t.pc = "answered"
  <2>1. /\ tab'.wants = tab.wants \cup {v} /\ tab'.items = tab.items /\ tab'.listed = tab.listed
        /\ tab'.failed = tab.failed /\ tab'.edited = tab.edited /\ tab'.late = tab.late
        /\ tab'.provider = tab.provider /\ tab'.form = tab.form /\ tab'.since = tab.since /\ tab'.email = tab.email
    BY <1>1, <1>3, <1>14, <1>16 DEF TabType
  <2>2. Shown' BY <1>1, <1>12, <1>16, <2>1, ShownSame
  <2>3. WantsSheets' BY <1>15, <2>1 DEF WantsSheets, PageInv
  <2> QED BY <1>1, <1>9, <2>1, <2>2, <2>3, ListSame
<1>17. CASE t.op = "disconnect" /\ t.pc = "answered"
  <2>1. tab' = [tab EXCEPT !.email = FALSE, !.wants = @ \cup {v},
                  !.since = IF ~OauthConnect(tab.provider) THEN @ ELSE IF t.since = None THEN None ELSE t.since + 1]
    BY <1>3, <1>14, <1>17
  <2>2. /\ tab'.wants = tab.wants \cup {v} /\ tab'.items = tab.items /\ tab'.listed = tab.listed
        /\ tab'.failed = tab.failed /\ tab'.edited = tab.edited /\ tab'.late = tab.late
        /\ tab'.provider = tab.provider /\ tab'.form = tab.form /\ tab'.email = FALSE
        /\ tab'.since = IF ~OauthConnect(tab.provider) THEN tab.since ELSE IF t.since = None THEN None ELSE t.since + 1
    BY <1>1, <2>1 DEF TabType
  <2>3. Loading => Loading' BY <1>12, <1>17, <2>2
  <2>4. WantsSheets' BY <1>15, <2>2 DEF WantsSheets, PageInv
  <2>5. CASE ~OauthConnect(tab.provider)
    <3>1. Shown' BY <1>1, <2>2, <2>3, <2>5, ShownSame
    <3> QED BY <1>1, <1>9, <2>2, <2>4, <3>1, ListSame
  <2>6. CASE OauthConnect(tab.provider)
    <3>1. PICK key \in Keys : key = Sheets(User) /\ key = <<User, tab.provider>>
      BY <2>6, KeyFacts DEF OauthConnect
    <3>2. PICK n \in Nat \cup {None} : n = t.since BY DEF TaskType
    <3>3. DisconnectedAt(n)
      BY <1>5, <1>17, <3>2 DEF AskedAs
    <3>4. DisconnectedAt(n)' BY <1>1, <3>3, KeyFacts, DisconnectedLater
    <3>5. PICK m : m = tab'.since OBVIOUS
    <3>6. m = IF n = None THEN None ELSE n + 1 BY <2>2, <2>6, <3>2, <3>5
    <3>7. PICK p : p = tab.provider OBVIOUS
    <3>8. ASSUME ~tab'.failed, ~tab'.edited, ~tab'.late, ~Loading' PROVE ShownAs(p, key)'
      <4>1. tab'.form = NoForm BY <2>2, <2>3, <2>6, <3>1, <3>8 DEF PageInv, Shown, ShownAs
      <4>2. history'.version[key] \in Nat BY <1>1 DEF TypeInv, HistoryType
      <4>3. None # history'.version[key] BY <4>2, NoneAssumption
      <4>4. Knows(m, key)' BY <3>1, <3>4, <3>6 DEF Knows, DisconnectedAt
      <4>5. m = history'.version[key] => \A c \in history'.expect[key] : c = Disconnected
        BY <3>1, <3>4, <3>6, <4>3 DEF DisconnectedAt
      <4>6. \A c : FormOf(p, c) = NoForm BY <2>6, <3>7, OauthForm
      <4>7. \A c \in history'.expect[key] : m = history'.version[key] =>
              tab'.form = FormOf(p, c) /\ (tab'.email <=> c.config.connectedEmail # None)
        BY <2>2, <4>1, <4>5, <4>6, OauthFacts
      <4> QED BY <3>5, <4>1, <4>4, <4>7 DEF ShownAs
    <3>9. Shown' BY <2>2, <3>1, <3>7, <3>8 DEF Shown
    <3> QED BY <1>1, <1>9, <2>2, <2>4, <3>9, ListSame
  <2> QED BY <2>5, <2>6
<1>18. t.op \in {"get", "put", "list", "disconnect"} BY <1>5 DEF AskedAs
<1> QED BY <1>3, <1>10, <1>11, <1>13, <1>16, <1>17, <1>18

LEMMA StepPage ==
  ASSUME Basics, Basics', OrderInv, PageInv, [Next]_vars
  PROVE  PageInv'
<1>1. \A key \in Keys : Steady(key) BY StepSteady
<1>2. ASSUME NEW h \in Slots, Request(h) PROVE PageInv'
  <2>1. ASSUME NEW s \in Servers, Put(h, s) \/ Get(h, s) \/ Disconnect(h, s) \/ Callback(h, s) PROVE PageInv'
    BY <1>1, <2>1, OthersPage
  <2>2. ASSUME NEW s \in Servers, TabSends(h, s) PROVE PageInv' BY <1>1, <2>2, SendsPage
  <2>3. CASE TabAnswered(h) BY <1>1, <2>3, AnswersPage
  <2>4. CASE Answered(h)
    <3>1. Elsewhere BY <2>4, AnsweredElsewhere
    <3>2. \A g \in Slots : Unanswered(task[g], task'[g])
      BY <2>4, IdleUnanswered DEF Answered, Actors, Basics
    <3> QED BY <1>1, <3>1, <3>2, ElsewherePage
  <2> QED BY <1>2, <2>1, <2>2, <2>3, <2>4 DEF Request
<1>3. ASSUME NEW a \in Actors, Steps(a) PROVE PageInv' BY <1>1, <1>3, StepsPage
<1>4. ASSUME NEW s \in Servers, Process(s) PROVE PageInv' BY <1>1, <1>4, ProcessPage
<1>5. CASE Page BY <1>1, <1>5, MovesPage DEF Page
<1>6. CASE OauthStart \/ Tick \/ UNCHANGED vars BY <1>1, <1>6, ApartPage
<1> QED BY <1>2, <1>3, <1>4, <1>5, <1>6 DEF Next, Actors

LEMMA InitPage ==
  ASSUME Init
  PROVE  PageInv
<1>1. TypeInv BY InitType
<1>2. tab = Closed /\ \A h \in Slots : task[h] = Idle BY DEF Init
<1>3. tab.provider = "stripe" /\ tab.since = None /\ tab.listed = None /\ tab.wants = {} BY <1>2 DEF Closed
<1>4. PICK key, sheets \in Keys : key = <<User, "stripe">> /\ sheets = Sheets(User) BY KeyFacts DEF Providers
<1>5. None # history.version[key] /\ None # history.version[sheets] BY <1>1, VersionNat
<1>6. Shown BY <1>3, <1>4, <1>5 DEF Shown, ShownAs, Knows, OauthConnect
<1>7. ListedAs(tab.items, tab.listed) BY <1>3, <1>4, <1>5 DEF ListedAs, Knows
<1>8. WantsSheets BY <1>3 DEF WantsSheets
<1> QED BY <1>2, <1>6, <1>7, <1>8 DEF PageInv, FromTab

LEMMA PageHolds == Spec => [](Basics /\ OrderInv /\ PageInv)
<1>1. Init => Basics /\ OrderInv /\ PageInv BY InitBasics, InitOrder, InitPage
<1>2. Basics /\ OrderInv /\ PageInv /\ [Next]_vars => Basics' /\ OrderInv' /\ PageInv'
  BY StepBasics, StepOrder, StepPage
<1> QED BY <1>1, <1>2, PTL DEF Spec

LEMMA PageSettled ==
  ASSUME Basics, OrderInv, PageInv
  PROVE  PageShowsStored
<1> SUFFICES ASSUME Settled, ~tab.failed, ~tab.edited, ~tab.late,
                    NEW key \in Keys, key = <<User, tab.provider>>, Writers(key) = {},
                    tab.since = history.version[key], NEW c \in history.expect[key]
             PROVE  /\ tab.form = FormOf(tab.provider, c)
                    /\ OauthConnect(tab.provider) /\ tab.listed = tab.since =>
                         (Connected <=> c.secrets # NoSecrets \/ c.config.connectedEmail # None)
  <2>1. <<User, tab.provider>> \in Keys BY KeyFacts DEF Basics, TypeInv, TabType
  <2> QED BY <2>1 DEF PageShowsStored
<1>1. ~Loading BY DEF Settled, Loading, Asked
<1>2. ~Disturbed(key) BY NoWriters DEF Basics
<1>3. ShownAs(tab.provider, key) BY <1>1 DEF PageInv, Shown
<1>4. /\ tab.form = FormOf(tab.provider, c)
      /\ OauthConnect(tab.provider) => (tab.email <=> c.config.connectedEmail # None)
  BY <1>2, <1>3 DEF ShownAs
<1>5. ASSUME OauthConnect(tab.provider), tab.listed = tab.since
      PROVE  tab.provider \in tab.items <=> c.secrets # NoSecrets
  <2>1. tab.provider = "google_sheets" /\ key = Sheets(User) BY <1>5 DEF OauthConnect, Sheets
  <2>2. ListedAs(tab.items, tab.listed) BY DEF PageInv
  <2> QED BY <1>2, <1>5, <2>1, <2>2 DEF ListedAs
<1> QED BY <1>4, <1>5 DEF Connected

-----------------------------------------------------------------------------
(* A credential has the values of its own provider, until the page saves a *)
(* document that another may have brought. *)
LEMMA NothingOf ==
  \A p : AllOf(NoCredential, p) /\ PatchOf(NoPatch, p) /\ SecretsOf(NoSecrets, p) /\ \A k \in FieldKeys : For(NoForm[k], p)
<1> TAKE p
<1>1. SecretsOf(NoSecrets, p) BY DEF SecretsOf, NoSecrets, For
<1>2. ConfigOf(NoConfig, p) BY DEF ConfigOf, NoConfig, For
<1>3. \A k \in FieldKeys : For(NoForm[k], p) BY DEF NoForm, For
<1> QED BY <1>1, <1>2, <1>3, OauthFacts DEF AllOf, NoCredential
LEMMA CurrentOf ==
  ASSUME TypeInv, VaultInv, NEW key \in Keys, RowOf(key)
  PROVE  AllOf(Current(key), key[2])
<1>1. CASE db.rows[key] = None BY <1>1, CurrentFacts, NothingOf
<1>2. CASE db.rows[key] # None
  <2>1. ConfigOf(Current(key).config, key[2]) BY <1>2, CurrentFacts DEF RowOf
  <2>2. CASE db.rows[key].ref = None BY <1>2, <2>1, <2>2, CurrentFacts, NothingOf DEF AllOf
  <2>3. CASE db.rows[key].ref # None /\ db.rows[key].ref.kind = "vault"
    <3>1. Current(key).secrets = db.vault[key] /\ db.vault[key] # None
      BY <1>2, <2>3, CurrentFacts, NoneAssumption
    <3> QED BY <2>1, <3>1 DEF RowOf, AllOf
  <2>4. CASE db.rows[key].ref # None /\ db.rows[key].ref.kind # "vault"
    <3>1. db.rows[key].ref = Encrypted(Current(key).secrets) BY <1>2, <2>4, CurrentFacts
    <3>2. db.rows[key].ref.secrets = Current(key).secrets BY <3>1 DEF Encrypted
    <3> QED BY <1>2, <2>1, <2>4, <3>2 DEF RowOf, AllOf
  <2> QED BY <2>2, <2>3, <2>4
<1> QED BY <1>1, <1>2
LEMMA MergedOf ==
  ASSUME NEW c, NEW q, NEW p, AllOf(c, p), PatchOf(q, p)
  PROVE  AllOf(Merged(c, q), p)
  BY DEF AllOf, PatchOf, Merged
LEMMA FollowsOf ==
  ASSUME NEW t, TaskOf(t), NEW u, NEW c, AllOf(c, t.key[2]), Follows(t, u, c)
  PROVE  TaskOf(u)
<1>1. u.key = t.key /\ u.patch = t.patch /\ (u.credential = c \/ u.credential = Merged(c, t.patch)) BY DEF Follows, Same
<1>2. t.key \in Keys => AllOf(Merged(c, t.patch), t.key[2]) BY MergedOf DEF TaskOf
<1> QED BY <1>1, <1>2 DEF TaskOf
LEMMA WaitsOf ==
  ASSUME NEW t, TaskOf(t), NEW u, AllOf(Current(t.key), t.key[2]), Waits(t, u)
  PROVE  TaskOf(u)
<1>1. PICK c : c = Current(t.key) OBVIOUS
<1>2. u.key = t.key /\ u.patch = t.patch /\ u.credential = [config |-> c.config, secrets |-> t.credential.secrets]
  BY <1>1 DEF Waits, Same
<1>3. AllOf(c, t.key[2]) BY <1>1
<1>4. t.key \in Keys => AllOf(u.credential, t.key[2]) BY <1>2, <1>3 DEF AllOf, TaskOf
<1> QED BY <1>2, <1>4 DEF TaskOf
LEMMA FetchedOf ==
  ASSUME TypeInv, VaultInv, Unmixed, NEW t \in TaskType, t.key \in Keys, TaskOf(t)
  PROVE  TaskOf(Fetched(t))
<1>1. PICK c : c = Current(t.key) OBVIOUS
<1>2. PICK u : u = Fetched(t) OBVIOUS
<1>3. AllOf(c, t.key[2]) BY <1>1, CurrentOf DEF Unmixed
<1>4. Follows(t, u, c) \/ Waits(t, u) BY <1>1, <1>2, FetchedFacts
<1>5. TaskOf(u) BY <1>1, <1>3, <1>4, FollowsOf, WaitsOf
<1> QED BY <1>2, <1>5
LEMMA RepaceOf ==
  ASSUME NEW t \in TaskType, NEW pc \in Pcs, TaskOf(t)
  PROVE  TaskOf(Repace(t, pc))
<1>1. PICK u : u = Repace(t, pc) OBVIOUS
<1>2. u.key = t.key /\ u.patch = t.patch /\ u.credential = t.credential BY <1>1, Repaced DEF Same
<1>3. TaskOf(u) BY <1>2 DEF TaskOf
<1> QED BY <1>1, <1>3
LEMMA LegacyOf ==
  ASSUME TypeInv, Unmixed, NEW x \in Legacy
  PROVE  SecretsOf(x.secrets, x.key[2])
<1>1. x.key \in Keys BY LegacyFacts DEF MoveType
<1>2. db.rows[x.key] # None /\ db.rows[x.key].ref # None /\ db.rows[x.key].ref = Encrypted(x.secrets) BY LegacyFacts
<1>3. db.rows[x.key].ref.secrets = x.secrets BY <1>2 DEF Encrypted
<1> QED BY <1>1, <1>2, <1>3 DEF Unmixed, RowOf

(* what a step has to show: what is new is of its provider *)
LEMMA UnmixedStep ==
  ASSUME TypeInv, Unmixed, WantsOf', FormOwn',
         \A key \in Keys : RowOf(key)' \/ (db'.rows[key] = db.rows[key] /\ db'.vault[key] = db.vault[key]),
         \A s \in Servers : \A x \in server'[s].todo : x \in server[s].todo \/ x \in Legacy,
         \A a \in Actors : TaskOf(task'[a]) \/ task'[a] = task[a]
  PROVE  Unmixed'
<1>1. ASSUME NEW key \in Keys PROVE RowOf(key)' BY DEF Unmixed, RowOf
<1>2. ASSUME NEW s \in Servers PROVE ServerOf(server[s])'
  <2> SUFFICES ASSUME NEW x \in server'[s].todo PROVE SecretsOf(x.secrets, x.key[2]) BY DEF ServerOf, SecretsOf, For
  <2> QED BY LegacyOf DEF Unmixed, ServerOf
<1>3. ASSUME NEW a \in Actors PROVE TaskOf(task[a])'
  <2>1. PICK t : t = task'[a] OBVIOUS
  <2>2. TaskOf(t)
    <3>1. CASE task'[a] = task[a]
      <4>1. t = task[a] /\ TaskOf(task[a]) BY <2>1, <3>1 DEF Unmixed
      <4> QED BY <4>1
    <3>2. CASE TaskOf(task'[a]) BY <2>1, <3>2
    <3> QED BY <3>1, <3>2
  <2>3. TaskOf(t)' BY <2>2 DEF TaskOf, AllOf, PatchOf, ConfigOf, SecretsOf, For
  <2> QED BY <2>1, <2>3
<1> QED BY <1>1, <1>2, <1>3 DEF Unmixed
LEMMA UnmixedTurn ==
  ASSUME TypeInv, Unmixed, WantsOf', FormOwn', db' = db, server' = server,
         NEW a \in Actors, NEW u, task' = [task EXCEPT ![a] = u], TaskOf(u)
  PROVE  Unmixed'
<1>1. \A b \in Actors : task'[b] = IF b = a THEN u ELSE task[b] BY DEF TypeInv
<1>2. ASSUME NEW b \in Actors PROVE TaskOf(task'[b]) \/ task'[b] = task[b]
  <2>1. PICK v : v = task'[b] OBVIOUS
  <2>2. v = task[b] \/ v = u BY <1>1, <2>1
  <2>3. TaskOf(v) \/ v = task[b] BY <2>2
  <2> QED BY <2>1, <2>3
<1> QED BY <1>2, UnmixedStep
LEMMA ElsewhereTab ==
  ASSUME Unmixed, Elsewhere
  PROVE  WantsOf' /\ FormOwn'
<1>1. tab' = tab /\ (Loading' <=> Loading) BY LoadingSame DEF Elsewhere
<1>2. WantsOf' BY <1>1 DEF Unmixed, WantsOf
<1>3. FormOwn' BY <1>1 DEF Unmixed, FormOwn
<1> QED BY <1>2, <1>3
LEMMA BeginsUnmixed ==
  ASSUME TypeInv, VaultInv, Unmixed, WantsOf', FormOwn', NEW a \in Actors, NEW t, Begins(a, t), PatchOf(t.patch, t.key[2])
  PROVE  Unmixed'
<1>1. t \in TaskType /\ t.key \in Keys /\ t.credential = NoCredential /\ db' = db /\ server' = server
      /\ task' = [task EXCEPT ![a] = Fetched(t)]
  BY DEF Begins, Starting
<1>2. TaskOf(t) BY <1>1, NothingOf DEF TaskOf
<1>3. PICK u : u = Fetched(t) OBVIOUS
<1>4. TaskOf(u) BY <1>1, <1>2, <1>3, FetchedOf
<1> QED BY <1>1, <1>3, <1>4, UnmixedTurn
LEMMA IdleOf == TaskOf(Idle)
  BY IdleTyped, NoneAssumption DEF TaskOf

(* the requests of others *)
LEMMA AnsweredUnmixed ==
  ASSUME Basics, Unmixed, NEW h \in Slots, Answered(h)
  PROVE  Unmixed'
<1>1. TypeInv /\ h \in Actors BY DEF Basics, Actors
<1>2. WantsOf' /\ FormOwn' BY AnsweredElsewhere, ElsewhereTab
<1>3. PICK u : u = Idle OBVIOUS
<1>4. UNCHANGED <<db, server>> /\ task' = [task EXCEPT ![h] = u] BY <1>3 DEF Answered
<1> QED BY <1>1, <1>2, <1>3, <1>4, IdleOf, UnmixedTurn
LEMMA OthersUnmixed ==
  ASSUME Basics, Unmixed, NEW h \in Slots, NEW s \in Servers, Put(h, s) \/ Get(h, s) \/ Disconnect(h, s) \/ Callback(h, s)
  PROVE  Unmixed'
<1>1. TypeInv /\ VaultInv /\ h \in Actors BY DEF Basics, Actors
<1>2. WantsOf' /\ FormOwn' BY RequestElsewhere, ElsewhereTab
<1>3. ASSUME NEW t, Begins(h, t), PatchOf(t.patch, t.key[2]) PROVE Unmixed' BY <1>1, <1>2, <1>3, BeginsUnmixed
<1>4. CASE Put(h, s)
  <2>1. PICK t : Begins(h, t) /\ PatchOf(t.patch, t.key[2]) BY <1>1, <1>4, PutTyped
  <2> QED BY <1>3, <2>1
<1>5. CASE Get(h, s)
  <2>1. PICK t : Begins(h, t) /\ t.patch = NoPatch BY <1>1, <1>5, GetTyped
  <2> QED BY <1>3, <2>1, NothingOf
<1>6. CASE Disconnect(h, s)
  <2>1. PICK t : Begins(h, t) /\ t.key = Sheets(User) /\ t.patch = Disconnected BY <1>1, <1>6, DisconnectTyped
  <2>2. t.key[2] = "google_sheets" BY <2>1, KeyFacts
  <2> QED BY <1>3, <2>1, <2>2, OauthFacts
<1>7. CASE Callback(h, s)
  <2>1. history.writes + 1 \in Nat BY <1>1 DEF TypeInv, HistoryType
  <2>2. PICK t : Begins(h, t) /\ t.key[2] = "google_sheets" /\ t.patch = Consented(history.writes + 1)
    BY <1>1, <1>7, CallbackTyped
  <2> QED BY <1>3, <2>1, <2>2, OauthFacts
<1> QED BY <1>4, <1>5, <1>6, <1>7

(* a save goes on *)
LEMMA RepacedOf ==
  ASSUME TypeInv, Unmixed, NEW a \in Actors, NEW pc \in Pcs, task' = [task EXCEPT ![a] = Repace(task[a], pc)]
  PROVE  \A b \in Actors : TaskOf(task'[b]) \/ task'[b] = task[b]
<1>1. PICK t \in TaskType : t = task[a] BY DEF TypeInv
<1>2. TaskOf(t) BY <1>1 DEF Unmixed
<1>3. PICK u : u = Repace(t, pc) OBVIOUS
<1>4. TaskOf(u) BY <1>2, <1>3, RepaceOf
<1>5. \A b \in Actors : task'[b] = IF b = a THEN u ELSE task[b] BY <1>1, <1>3 DEF TypeInv
<1>6. ASSUME NEW b \in Actors PROVE TaskOf(task'[b]) \/ task'[b] = task[b]
  <2>1. PICK v : v = task'[b] OBVIOUS
  <2>2. TaskOf(v) \/ v = task[b] BY <1>4, <1>5, <2>1
  <2> QED BY <2>1, <2>2
<1> QED BY <1>6
LEMMA VaultOf ==
  ASSUME TypeInv, Unmixed, NEW key \in Keys, NEW x \in Secrets, SecretsOf(x, key[2]),
         db'.rows = db.rows, db'.vault = [db.vault EXCEPT ![key] = x]
  PROVE  \A k \in Keys : RowOf(k)' \/ (db'.rows[k] = db.rows[k] /\ db'.vault[k] = db.vault[k])
<1>1. \A k \in Keys : db'.vault[k] = IF k = key THEN x ELSE db.vault[k] BY DEF TypeInv, DbType
<1>2. RowOf(key)' BY <1>1 DEF Unmixed, RowOf
<1> QED BY <1>1, <1>2
LEMMA SavingOf ==
  ASSUME TypeInv, WorkInv, Unmixed, NEW a \in Actors, Working(a)
  PROVE  /\ task[a].key \in Keys /\ task[a].credential \in Credentials
         /\ AllOf(task[a].credential, task[a].key[2])
<1>1. task[a].key \in Keys /\ task[a] \in TaskType BY WorkingFacts
<1> QED BY <1>1 DEF Unmixed, TaskOf, TaskType

LEMMA WriteRowUnmixed ==
  ASSUME Basics, Unmixed, WantsOf', FormOwn', NEW a \in Actors, WriteRow(a)
  PROVE  Unmixed'
<1>1. TypeInv /\ WorkInv /\ server' = server /\ Working(a) BY DEF Basics, WriteRow, Working
<1>2. PICK key \in Keys : key = task[a].key BY <1>1, WriteRowTyped
<1>3. PICK c \in Credentials : c = task[a].credential /\ AllOf(c, key[2]) BY <1>1, <1>2, SavingOf
<1>4. task[a].server \in Servers BY <1>1, WorkingFacts
<1>5. PICK row \in RowType : row = Row(task[a]) BY <1>1, <1>4, RowFacts
<1>6. /\ db'.vault = db.vault /\ db'.rows = [db.rows EXCEPT ![key] = row]
      /\ task' = [task EXCEPT ![a] = Repace(task[a], "audit")]
  BY <1>1, <1>2, <1>5, WriteRowTyped
<1>7. server[task[a].server].backend \in Backends BY <1>1, <1>4 DEF TypeInv, ServerType
<1>8. row.config = c.config /\ (row.ref # None => row.ref.secrets = c.secrets \/ row.ref.secrets = NoSecrets)
  <2>1. row.config = c.config /\ row.ref = Ref(server[task[a].server].backend, c.secrets)
    BY <1>1, <1>3, <1>4, <1>5, RowFacts
  <2> QED BY <1>3, <1>7, <2>1 DEF Ref, InVault, Encrypted
<1>9. \A k \in Keys : RowOf(k)' \/ (db'.rows[k] = db.rows[k] /\ db'.vault[k] = db.vault[k])
  <2>1. \A k \in Keys : db'.rows[k] = IF k = key THEN row ELSE db.rows[k] BY <1>1, <1>6 DEF TypeInv, DbType
  <2>2. ConfigOf(row.config, key[2]) /\ (row.ref # None => SecretsOf(row.ref.secrets, key[2]))
    BY <1>3, <1>8, NothingOf DEF AllOf
  <2>3. RowOf(key)' BY <1>6, <2>1, <2>2 DEF Unmixed, RowOf
  <2> QED BY <1>6, <2>1, <2>3
<1>10. \A b \in Actors : TaskOf(task'[b]) \/ task'[b] = task[b] BY <1>1, <1>6, RepacedOf DEF Pcs
<1> QED BY <1>1, <1>9, <1>10, UnmixedStep

LEMMA LoadUnmixed ==
  ASSUME Basics, Unmixed, WantsOf', FormOwn', NEW a \in Actors, Load(a)
  PROVE  Unmixed'
<1>1. TypeInv /\ WorkInv /\ UNCHANGED <<db, server>> BY DEF Basics, Load
<1>2. PICK t \in TaskType : t = task[a] BY <1>1 DEF TypeInv
<1>3. t.key \in Keys BY <1>1, <1>2, WorkingFacts DEF Load, Working
<1>4. TaskOf(t) BY <1>2 DEF Unmixed
<1>5. PICK u \in TaskType :
           /\ task' = [task EXCEPT ![a] = u]
           /\ \/ db.vault[task[a].key] = None /\ u = Repace(task[a], "failed")
              \/ /\ db.vault[task[a].key] \in Secrets
                 /\ Follows(task[a], u, [config |-> task[a].credential.config, secrets |-> db.vault[task[a].key]])
  BY <1>1, LoadFacts
<1>6. CASE u = Repace(t, "failed")
  <2>1. TaskOf(u) BY <1>4, <1>6, RepaceOf DEF Pcs
  <2> QED BY <1>1, <1>5, <2>1, UnmixedTurn
<1>7. CASE /\ db.vault[t.key] \in Secrets
           /\ Follows(t, u, [config |-> t.credential.config, secrets |-> db.vault[t.key]])
  <2>1. PICK e \in Secrets : e = db.vault[t.key] BY <1>7
  <2>2. PICK c : c = [config |-> t.credential.config, secrets |-> e] OBVIOUS
  <2>3. SecretsOf(e, t.key[2]) BY <1>3, <2>1, NoneAssumption DEF Unmixed, RowOf
  <2>4. AllOf(c, t.key[2]) BY <1>3, <1>4, <2>2, <2>3 DEF AllOf, TaskOf
  <2>5. Follows(t, u, c) BY <1>7, <2>1, <2>2
  <2>6. TaskOf(u) BY <1>4, <2>4, <2>5, FollowsOf
  <2> QED BY <1>1, <1>5, <2>6, UnmixedTurn
<1> QED BY <1>2, <1>5, <1>6, <1>7

LEMMA StepsUnmixed ==
  ASSUME Basics, Unmixed, NEW a \in Actors, Steps(a)
  PROVE  Unmixed'
<1>1. TypeInv /\ WorkInv /\ VaultInv BY DEF Basics
<1>2. WantsOf' /\ FormOwn' BY StepsElsewhere, ElsewhereTab
<1>3. CASE Reread(a)
  <2>1. PICK t : t = task[a] OBVIOUS
  <2>2. t \in TaskType /\ t.key \in Keys /\ task' = [task EXCEPT ![a] = Fetched(t)] BY <1>1, <1>3, <2>1, RereadFacts
  <2>3. PICK u : u = Fetched(t) OBVIOUS
  <2>4. TaskOf(t) BY <2>1 DEF Unmixed
  <2>5. TaskOf(u) BY <1>1, <2>2, <2>3, <2>4, FetchedOf
  <2>6. UNCHANGED <<db, server>> BY <1>3 DEF Reread
  <2> QED BY <1>1, <1>2, <2>2, <2>3, <2>5, <2>6, UnmixedTurn
<1>4. CASE Load(a) BY <1>2, <1>4, LoadUnmixed
<1>5. CASE SaveSecrets(a)
  <2>1. server' = server /\ Working(a) BY <1>5 DEF SaveSecrets, Working
  <2>2. PICK key \in Keys, x \in Secrets : key = task[a].key /\ x = task[a].credential.secrets
    BY <1>1, <1>5, SaveSecretsTyped
  <2>3. /\ db'.rows = db.rows /\ db'.vault = [db.vault EXCEPT ![key] = x]
        /\ task' = [task EXCEPT ![a] = Repace(task[a], "write")]
    BY <1>1, <1>5, <2>2, SaveSecretsTyped
  <2>4. SecretsOf(x, key[2]) BY <1>1, <2>1, <2>2, SavingOf DEF AllOf
  <2>5. \A k \in Keys : RowOf(k)' \/ (db'.rows[k] = db.rows[k] /\ db'.vault[k] = db.vault[k])
    BY <1>1, <2>3, <2>4, VaultOf
  <2>6. \A b \in Actors : TaskOf(task'[b]) \/ task'[b] = task[b] BY <1>1, <2>3, RepacedOf DEF Pcs
  <2> QED BY <1>1, <1>2, <2>1, <2>5, <2>6, UnmixedStep
<1>6. CASE WriteRow(a) BY <1>2, <1>6, WriteRowUnmixed
<1>7. CASE Saves(a)
  <2>1. UNCHANGED <<db, server>> BY <1>7 DEF Saves
  <2>2. task' = [task EXCEPT ![a] = Repace(task[a], "answered")] BY <1>1, <1>7, SavesTyped
  <2>3. \A b \in Actors : TaskOf(task'[b]) \/ task'[b] = task[b] BY <1>1, <2>2, RepacedOf DEF Pcs
  <2> QED BY <1>1, <1>2, <2>1, <2>3, UnmixedStep
<1>8. CASE Fails(a)
  <2>1. server' = server /\ Working(a) BY <1>8 DEF Fails, Working
  <2>2. PICK key \in Keys : key = task[a].key BY <1>1, <1>8, FailsTyped
  <2>3. PICK x \in Secrets : x = task[a].credential.secrets /\ SecretsOf(x, key[2])
    BY <1>1, <2>1, <2>2, SavingOf DEF AllOf, Credentials
  <2>4. \A k \in Keys : RowOf(k)' \/ (db'.rows[k] = db.rows[k] /\ db'.vault[k] = db.vault[k])
    <3>1. CASE db' = db BY <3>1
    <3>2. CASE db' # db
      <4>1. db'.rows = db.rows /\ db'.vault = [db.vault EXCEPT ![key] = x] BY <1>1, <1>8, <2>2, <2>3, <3>2, FailsTyped
      <4> QED BY <1>1, <2>3, <4>1, VaultOf
    <3> QED BY <3>1, <3>2
  <2>5. task' = [task EXCEPT ![a] = Repace(task[a], "failed")] BY <1>1, <1>8, FailsTyped
  <2>6. \A b \in Actors : TaskOf(task'[b]) \/ task'[b] = task[b] BY <1>1, <2>5, RepacedOf DEF Pcs
  <2> QED BY <1>1, <1>2, <2>1, <2>4, <2>6, UnmixedStep
<1> QED BY <1>3, <1>4, <1>5, <1>6, <1>7, <1>8 DEF Steps

(* a process goes on *)
LEMMA ServerUnmixed ==
  ASSUME TypeInv, Unmixed, WantsOf', FormOwn', task' = task,
         NEW s \in Servers, NEW r, server' = [server EXCEPT ![s] = r], r.todo \subseteq server[s].todo \cup Legacy,
         \A key \in Keys : RowOf(key)' \/ (db'.rows[key] = db.rows[key] /\ db'.vault[key] = db.vault[key])
  PROVE  Unmixed'
<1>1. \A q \in Servers : \A x \in server'[q].todo : x \in server[q].todo \/ x \in Legacy BY DEF TypeInv
<1> QED BY <1>1, UnmixedStep
LEMMA SeedOf ==
  ASSUME TypeInv, OwnerInv, NEW p \in Providers, NEW env, env = scenario.env
  PROVE  PatchOf(SeedPatch(p, env), p)
<1>1. env \in [EnvNames -> {None} \cup Values] BY DEF TypeInv, Scenario
<1>2. PICK c \in PatchType : c = SeedPatch(p, env) /\ FromEnv(p, env, c.config) /\ FromEnv(p, env, c.secrets)
  BY <1>1, SeedFacts
<1>3. \A j \in Settings[p] : For(env[j], p) BY DEF OwnerInv, EnvHeld, First0, For
<1>4. c.config = None \/ ConfigOf(c.config, p)
  <2>1. c.config # None => DOMAIN c.config = ConfigNames BY DEF PatchType, Configs
  <2> QED BY <1>2, <1>3, <2>1 DEF FromEnv, ConfigOf, For
<1>5. c.secrets = None \/ SecretsOf(c.secrets, p)
  <2>1. c.secrets # None => DOMAIN c.secrets = SecretNames BY DEF PatchType, Secrets
  <2> QED BY <1>2, <1>3, <2>1 DEF FromEnv, SecretsOf, For
<1> QED BY <1>2, <1>4, <1>5 DEF PatchOf

LEMMA ProcessUnmixed ==
  ASSUME Basics, Unmixed, NEW s \in Servers, Process(s)
  PROVE  Unmixed'
<1>1. TypeInv /\ WorkInv /\ VaultInv /\ OwnerInv /\ s \in Actors BY DEF Basics, Actors
<1>2. WantsOf' /\ FormOwn' BY ProcessElsewhere, ElsewhereTab
<1>3. CASE StartUp(s) \/ MigrateSelect(s) \/ Build(s)
  <2>1. UNCHANGED <<db, task>> BY <1>3 DEF StartUp, MigrateSelect, Build
  <2>2. PICK r : server' = [server EXCEPT ![s] = r] /\ r.todo \subseteq server[s].todo \cup Legacy
    <3>1. CASE StartUp(s)
      <4>1. \E r : server' = [server EXCEPT ![s] = r] /\ r.todo = {} BY <1>1, <3>1, StartUpTyped
      <4> QED BY <4>1
    <3>2. CASE MigrateSelect(s)
      <4>1. \E r : server' = [server EXCEPT ![s] = r] /\ r.todo = Legacy BY <1>1, <3>2, MigrateSelectTyped
      <4> QED BY <4>1
    <3>3. CASE Build(s)
      <4>1. \E r : server' = [server EXCEPT ![s] = r] /\ r.todo = server[s].todo BY <1>1, <3>3, BuildTyped
      <4> QED BY <4>1
    <3> QED BY <1>3, <3>1, <3>2, <3>3
  <2> QED BY <1>1, <1>2, <2>1, <2>2, ServerUnmixed
<1>4. CASE MigrateSave(s)
  <2>1. task' = task BY <1>4 DEF MigrateSave
  <2>2. PICK x \in server[s].todo :
              /\ x \in MoveType
              /\ db'.rows = db.rows /\ db'.vault = [db.vault EXCEPT ![x.key] = x.secrets]
              /\ \E r \in ServerType :
                   /\ server' = [server EXCEPT ![s] = r]
                   /\ r.backend = server[s].backend /\ r.todo = server[s].todo /\ r.moving = {x}
                   /\ r.stage = server[s].stage /\ r.seeds = server[s].seeds
    BY <1>1, <1>4, MigrateSaveTyped
  <2>3. PICK r : server' = [server EXCEPT ![s] = r] /\ r.todo = server[s].todo BY <2>2
  <2>4. PICK key \in Keys, e \in Secrets : key = x.key /\ e = x.secrets BY <2>2 DEF MoveType
  <2>5. SecretsOf(e, key[2]) BY <2>4 DEF Unmixed, ServerOf
  <2>6. db'.rows = db.rows /\ db'.vault = [db.vault EXCEPT ![key] = e] BY <2>2, <2>4
  <2>7. \A k \in Keys : RowOf(k)' \/ (db'.rows[k] = db.rows[k] /\ db'.vault[k] = db.vault[k])
    BY <1>1, <2>5, <2>6, VaultOf
  <2> QED BY <1>1, <1>2, <2>1, <2>3, <2>7, ServerUnmixed
<1>5. CASE MigrateWrite(s)
  <2>1. task' = task BY <1>5 DEF MigrateWrite
  <2>2. PICK x \in server[s].moving :
              /\ x \in MoveType
              /\ db'.vault = db.vault
              /\ db'.rows = [db.rows EXCEPT ![x.key] = [config |-> db.rows[x.key].config, ref |-> InVault]]
              /\ \E r \in ServerType :
                   /\ server' = [server EXCEPT ![s] = r]
                   /\ r.backend = server[s].backend /\ r.todo = server[s].todo \ {x} /\ r.moving = {}
                   /\ r.stage = server[s].stage /\ r.seeds = server[s].seeds
              /\ history'.writes = history.writes /\ history'.clean = history.clean
              /\ history'.version = history.version
              /\ \A k \in Keys : history'.expect[k] = IF k = x.key /\ ~history.clean[k] THEN {} ELSE history.expect[k]
    BY <1>1, <1>5, MigrateWriteTyped
  <2>3. PICK r : server' = [server EXCEPT ![s] = r] /\ r.todo = server[s].todo \ {x} BY <2>2
  <2>4. PICK key \in Keys : key = x.key BY <2>2 DEF MoveType
  <2>5. x \in server[s].todo BY <1>1, MovingFacts
  <2>6. db.rows[key] # None BY <1>1, <2>4, <2>5 DEF VaultInv, ServerKept
  <2>7. PICK c : c = db.rows[key].config OBVIOUS
  <2>8. PICK row : row = [config |-> c, ref |-> InVault] OBVIOUS
  <2>9. \A k \in Keys : db'.rows[k] = IF k = key THEN row ELSE db.rows[k]
    BY <1>1, <2>2, <2>4, <2>7, <2>8 DEF TypeInv, DbType
  <2>10. ConfigOf(c, key[2]) BY <2>6, <2>7 DEF Unmixed, RowOf
  <2>11. row.config = c /\ row.ref.secrets = NoSecrets BY <2>8 DEF InVault
  <2>12. RowOf(key)' BY <2>2, <2>9, <2>10, <2>11, NothingOf DEF Unmixed, RowOf
  <2>13. \A k \in Keys : RowOf(k)' \/ (db'.rows[k] = db.rows[k] /\ db'.vault[k] = db.vault[k])
    BY <2>2, <2>9, <2>12
  <2> QED BY <1>1, <1>2, <2>1, <2>3, <2>13, ServerUnmixed
<1>6. CASE Seed(s)
  <2>1. PICK p \in Providers : \E t : Begins(s, t) /\ t.key = <<User, p>> /\ t.patch = SeedPatch(p, scenario.env)
    BY <1>1, <1>6, SeedTyped
  <2>2. PICK t : Begins(s, t) /\ t.key = <<User, p>> /\ t.patch = SeedPatch(p, scenario.env) BY <2>1
  <2>3. PatchOf(t.patch, t.key[2])
    <3>1. PICK env : env = scenario.env OBVIOUS
    <3>2. PatchOf(SeedPatch(p, env), p) BY <1>1, <3>1, SeedOf
    <3> QED BY <2>2, <3>1, <3>2
  <2> QED BY <1>1, <1>2, <2>2, <2>3, BeginsUnmixed
<1>7. CASE Seeded(s)
  <2>1. PICK u : u = Idle OBVIOUS
  <2>2. Ends(s) /\ task' = [task EXCEPT ![s] = u] /\ db' = db BY <1>1, <1>7, <2>1, SeededTyped DEF Ends
  <2>3. PICK r : server' = [server EXCEPT ![s] = r] /\ r.todo = server[s].todo BY <2>2 DEF Ends
  <2>4. \A q \in Servers : \A x \in server'[q].todo : x \in server[q].todo BY <1>1, <2>3 DEF TypeInv
  <2>5. \A b \in Actors : task'[b] = IF b = s THEN u ELSE task[b] BY <1>1, <2>2 DEF TypeInv
  <2>6. ASSUME NEW b \in Actors PROVE TaskOf(task'[b]) \/ task'[b] = task[b]
    <3>1. PICK v : v = task'[b] OBVIOUS
    <3>2. v = u \/ v = task[b] BY <2>5, <3>1
    <3>3. TaskOf(v) \/ v = task[b] BY <2>1, <3>2, IdleOf
    <3> QED BY <3>1, <3>3
  <2> QED BY <1>1, <1>2, <2>2, <2>4, <2>6, UnmixedStep
<1>8. CASE Crash(s)
  <2>1. db' = db /\ server' = [server EXCEPT ![s] = Fresh] /\ \A a \in Actors : task'[a] = AfterCrash(s, a)
    BY <1>1, <1>8, CrashTyped
  <2>2. \A q \in Servers : \A x \in server'[q].todo : x \in server[q].todo BY <1>1, <2>1, FreshTyped DEF TypeInv
  <2>3. ASSUME NEW a \in Actors PROVE TaskOf(task'[a]) \/ task'[a] = task[a]
    <3>1. PICK t \in TaskType : t = task[a] BY <1>1 DEF TypeInv
    <3>2. TaskOf(t) BY <3>1 DEF Unmixed
    <3>3. PICK v : v = task'[a] OBVIOUS
    <3>4. v = Idle \/ v = Repace(t, "failed") \/ v = t BY <2>1, <3>1, <3>3 DEF AfterCrash
    <3>5. TaskOf(v) BY <3>2, <3>4, IdleOf, RepaceOf DEF Pcs
    <3> QED BY <3>3, <3>5
  <2> QED BY <1>1, <1>2, <2>1, <2>2, <2>3, UnmixedStep
<1> QED BY <1>3, <1>4, <1>5, <1>6, <1>7, <1>8 DEF Process

(* the page *)
LEMMA TabOf ==
  ASSUME Unmixed, Loading => Loading', tab'.late = tab.late, tab'.provider = tab.provider,
         tab'.form = tab.form, tab'.draft = tab.draft
  PROVE  FormOwn'
  BY DEF Unmixed, FormOwn
LEMMA AloneUnmixed ==
  ASSUME TypeInv, Unmixed, WantsOf', FormOwn', UNCHANGED <<db, server, task>>
  PROVE  Unmixed'
<1>1. \A a \in Actors : task'[a] = task[a] OBVIOUS
<1> QED BY <1>1, UnmixedStep

LEMMA SendsUnmixed ==
  ASSUME Basics, Unmixed, NEW h \in Slots, NEW s \in Servers, TabSends(h, s)
  PROVE  Unmixed'
<1>1. TypeInv /\ VaultInv /\ tab \in TabType /\ task[h] = Idle /\ h \in Actors BY DEF Basics, TypeInv, TabSends, Actors
<1>2. PICK w \in tab.wants :
        /\ tab' = [tab EXCEPT !.wants = @ \ {w}]
        /\ \/ w.op = "list" /\ \E t : Lists(h, t)
           \/ \E t : /\ Begins(h, t) /\ t.key[1] = User /\ t.patch = w.patch
                     /\ t.from = "tab" /\ t.op = w.op /\ t.key = <<User, w.provider>>
  BY <1>1, TabSendsTyped
<1>3. /\ tab'.wants = tab.wants \ {w} /\ tab'.late = tab.late /\ tab'.provider = tab.provider
      /\ tab'.form = tab.form /\ tab'.draft = tab.draft
  BY <1>1, <1>2 DEF TabType
<1>4. WantsOf' BY <1>3 DEF Unmixed, WantsOf
<1>5. ASSUME NEW u, task' = [task EXCEPT ![h] = u], FromTab(u) /\ u.op = w.op
      PROVE  FormOwn'
  <2>1. Loading => Loading' BY <1>1, <1>3, <1>5, TurnLoading DEF FromTab
  <2> QED BY <1>3, <2>1, TabOf
<1>6. CASE w.op = "list" /\ \E t : Lists(h, t)
  <2>1. PICK t : Lists(h, t) BY <1>6
  <2>2. /\ task' = [task EXCEPT ![h] = t] /\ t.op = "list" /\ t.from = "tab" /\ t.pc = "answered"
        /\ t.credential = NoCredential /\ t.patch = NoPatch /\ db' = db /\ server' = server
    BY <2>1 DEF Lists
  <2>3. FromTab(t) BY <2>2, IdleTyped DEF FromTab
  <2>4. FormOwn' BY <1>5, <1>6, <2>2, <2>3
  <2>5. TaskOf(t) BY <2>2, NothingOf DEF TaskOf
  <2> QED BY <1>1, <1>4, <2>2, <2>4, <2>5, UnmixedTurn
<1>7. CASE \E t : /\ Begins(h, t) /\ t.key[1] = User /\ t.patch = w.patch
                  /\ t.from = "tab" /\ t.op = w.op /\ t.key = <<User, w.provider>>
  <2>1. PICK t : /\ Begins(h, t) /\ t.patch = w.patch
                 /\ t.from = "tab" /\ t.op = w.op /\ t.key = <<User, w.provider>>
    BY <1>7
  <2>2. PICK u : u = Fetched(t) OBVIOUS
  <2>3. t \in TaskType /\ t.key \in Keys /\ task' = [task EXCEPT ![h] = u] BY <2>1, <2>2 DEF Begins, Starting
  <2>4. PICK c : c = Current(t.key) OBVIOUS
  <2>5. Follows(t, u, c) \/ Waits(t, u) BY <1>1, <2>2, <2>3, <2>4, FetchedFacts
  <2>6. Same(t, u) /\ u.pc # "idle" BY <2>5 DEF Follows, Waits
  <2>7. FromTab(u) /\ u.op = w.op BY <2>1, <2>6, IdleTyped DEF FromTab, Same
  <2>8. FormOwn' BY <1>5, <2>3, <2>7
  <2>9. PatchOf(t.patch, t.key[2]) BY <2>1 DEF Unmixed, WantsOf
  <2> QED BY <1>1, <1>4, <2>1, <2>8, <2>9, BeginsUnmixed
<1> QED BY <1>2, <1>6, <1>7

LEMMA FilledOf ==
  ASSUME Basics, Unmixed, NEW h \in Slots, NEW key \in Keys, task[h].key = key, tab' = Filled(task[h])
  PROVE  FormOwn' /\ tab'.wants = tab.wants
<1>1. TypeInv /\ tab \in TabType BY DEF Basics, TypeInv
<1>2. PICK t \in TaskType : t = task[h] BY <1>1 DEF TypeInv, Actors
<1>3. TaskOf(t) BY <1>2 DEF Unmixed, Actors
<1>4. PICK p \in Providers : p = key[2] BY KeyFacts
<1>5. PICK found : found = IF t.pc = "answered" THEN t.credential ELSE NoCredential OBVIOUS
<1>6. found \in Credentials /\ AllOf(found, p)
  <2>1. AllOf(t.credential, p) BY <1>2, <1>3, <1>4 DEF TaskOf
  <2> QED BY <1>5, <2>1, NothingOf, Names DEF TaskType
<1>7. tab' = [tab EXCEPT !.late = p # tab.provider, !.form = FormOf(p, found), !.draft = found, !.edited = FALSE,
                !.email = found.config.connectedEmail # None, !.failed = t.pc = "failed", !.since = t.since]
  BY <1>2, <1>4, <1>5 DEF Filled
<1>8. PICK form : form = FormOf(p, found) OBVIOUS
<1>9. /\ tab'.wants = tab.wants /\ tab'.provider = tab.provider /\ tab'.form = form /\ tab'.draft = found
      /\ tab'.late <=> p # tab.provider
  BY <1>1, <1>7, <1>8 DEF TabType
<1>10. ASSUME NEW k \in FieldKeys PROVE For(form[k], p)
  <2>1. form[k] = None \/ In(form[k], found) BY <1>6, <1>8, FormFacts
  <2>2. PICK v : v = form[k] OBVIOUS
  <2>3. v = None \/ In(v, found) BY <2>1, <2>2
  <2>4. For(v, p) BY <1>6, <2>3 DEF For, In, AllOf, ConfigOf, SecretsOf
  <2> QED BY <2>2, <2>4
<1>11. FormOwn'
  <2> SUFFICES ASSUME ~tab'.late
               PROVE  AllOf(tab'.draft, tab'.provider) /\ \A k \in FieldKeys : For(tab'.form[k], tab'.provider)
    BY DEF FormOwn, AllOf, ConfigOf, SecretsOf, For
  <2>1. p = tab'.provider BY <1>9
  <2> QED BY <1>6, <1>9, <1>10, <2>1
<1> QED BY <1>9, <1>11

LEMMA AnswersUnmixed ==
  ASSUME Basics, Unmixed, NEW h \in Slots, TabAnswered(h)
  PROVE  Unmixed'
<1>1. TypeInv /\ WorkInv /\ tab \in TabType /\ h \in Actors BY DEF Basics, TypeInv, Actors
<1>2. PICK t \in TaskType : t = task[h] BY <1>1 DEF TypeInv
<1>3. /\ t.pc \in {"answered", "failed"} /\ t.from = "tab" /\ task' = [task EXCEPT ![h] = Idle] /\ UNCHANGED <<db, server>>
      /\ tab' = IF t.op = "get" THEN Filled(t)
                ELSE IF t.pc = "failed" THEN [tab EXCEPT !.failed = TRUE, !.busy = FALSE]
                ELSE IF t.op = "list" THEN [tab EXCEPT !.items = t.items, !.listed = t.since, !.busy = FALSE]
                ELSE IF t.op = "put" THEN [tab EXCEPT !.wants = @ \cup {Wants("list", "stripe", NoPatch)}]
                ELSE [tab EXCEPT !.email = FALSE, !.wants = @ \cup {Wants("list", "stripe", NoPatch)},
                        !.since = IF ~OauthConnect(tab.provider) THEN @ ELSE IF t.since = None THEN None ELSE t.since + 1]
  BY <1>2 DEF TabAnswered
<1>4. PICK u : u = Idle OBVIOUS
<1>5. task' = [task EXCEPT ![h] = u] /\ TaskOf(u) BY <1>3, <1>4, IdleOf
<1>6. CASE t.op = "get"
  <2>1. Fits(h, t) BY <1>1, <1>2 DEF WorkInv
  <2>2. PICK key \in Keys : key = t.key BY <1>3, <2>1 DEF Fits
  <2>3. FormOwn' /\ tab'.wants = tab.wants BY <1>2, <1>3, <1>6, <2>2, FilledOf
  <2>4. WantsOf' BY <2>3 DEF Unmixed, WantsOf
  <2> QED BY <1>1, <1>3, <1>5, <2>3, <2>4, UnmixedTurn
<1>7. CASE t.op # "get"
  <2>1. PICK v : v = Wants("list", "stripe", NoPatch) OBVIOUS
  <2>2. v.patch = NoPatch BY <2>1 DEF Wants
  <2>3. /\ tab'.wants = tab.wants \/ tab'.wants = tab.wants \cup {v}
        /\ tab'.late = tab.late /\ tab'.provider = tab.provider /\ tab'.form = tab.form /\ tab'.draft = tab.draft
    BY <1>1, <1>3, <1>7, <2>1 DEF TabType
  <2>4. Loading => Loading' BY <1>1, <1>2, <1>5, <1>7, <2>3, TurnLoading
  <2>5. FormOwn' BY <2>3, <2>4, TabOf
  <2>6. WantsOf'
    <3> SUFFICES ASSUME NEW w \in tab'.wants PROVE PatchOf(w.patch, w.provider)
      BY DEF WantsOf, PatchOf, ConfigOf, SecretsOf, For
    <3>1. w \in tab.wants \/ w.patch = NoPatch BY <2>2, <2>3
    <3> QED BY <3>1, NothingOf DEF Unmixed, WantsOf
  <2> QED BY <1>1, <1>3, <1>5, <2>5, <2>6, UnmixedTurn
<1> QED BY <1>6, <1>7

LEMMA SavedOf ==
  ASSUME NEW p \in Providers, NEW form \in Forms, \A k \in FieldKeys : For(form[k], p)
  PROVE  AllOf(Saved(p, form), p)
<1>1. PICK c : c = Saved(p, form) OBVIOUS
<1>2. /\ \A k \in ConfigNames : c.config[k] = None \/ \E j \in FieldKeys : c.config[k] = form[j]
      /\ \A k \in SecretNames : c.secrets[k] = None \/ \E j \in FieldKeys : c.secrets[k] = form[j]
  BY <1>1, SavedFacts
<1>3. AllOf(c, p) BY <1>2 DEF AllOf, ConfigOf, SecretsOf, For
<1> QED BY <1>1, <1>3

LEMMA WantsGrow ==
  ASSUME Unmixed, NEW v, tab'.wants = tab.wants \cup {v}, PatchOf(v.patch, v.provider)
  PROVE  WantsOf'
<1> SUFFICES ASSUME NEW w \in tab'.wants PROVE PatchOf(w.patch, w.provider)
  BY DEF WantsOf, PatchOf, ConfigOf, SecretsOf, For
<1> QED BY DEF Unmixed, WantsOf
LEMMA ClosedOf ==
  ASSUME tab'.form = NoForm, tab'.draft = NoCredential, \A w \in tab'.wants : w.patch = NoPatch
  PROVE  WantsOf' /\ FormOwn'
<1>1. WantsOf'
  <2> SUFFICES ASSUME NEW w \in tab'.wants PROVE PatchOf(w.patch, w.provider)
    BY DEF WantsOf, PatchOf, ConfigOf, SecretsOf, For
  <2> QED BY NothingOf
<1>2. FormOwn'
  <2>1. PICK p : p = tab'.provider OBVIOUS
  <2>2. AllOf(tab'.draft, p) /\ \A k \in FieldKeys : For(tab'.form[k], p) BY NothingOf
  <2> QED BY <2>1, <2>2 DEF FormOwn, AllOf, ConfigOf, SecretsOf, For
<1> QED BY <1>1, <1>2

LEMMA MovesUnmixed ==
  ASSUME Basics, Unmixed, Visit \/ Choose \/ Edit \/ Save \/ TabDisconnect \/ TabConnect, ~history'.mixed
  PROVE  Unmixed'
<1>1. TypeInv /\ tab \in TabType BY DEF Basics, TypeInv
<1>2. CASE Visit
  <2>1. WantsOf' /\ FormOwn' BY <1>1, <1>2, VisitTyped, ClosedOf
  <2>2. UNCHANGED <<db, server, task>> BY <1>2 DEF Visit
  <2> QED BY <1>1, <2>1, <2>2, AloneUnmixed
<1>3. CASE Choose
  <2>1. PICK p : tab' = [tab EXCEPT !.provider = p, !.wants = @ \cup {Wants("get", p, NoPatch)}]
    BY <1>3 DEF Choose, Chosen
  <2>2. PICK v : v = Wants("get", p, NoPatch) OBVIOUS
  <2>3. v.op = "get" /\ v.patch = NoPatch BY <2>2 DEF Wants
  <2>4. tab'.wants = tab.wants \cup {v} BY <1>1, <2>1, <2>2 DEF TabType
  <2>5. FormOwn' BY <2>3, <2>4, LoadingFacts DEF FormOwn
  <2>6. PatchOf(v.patch, v.provider) BY <2>3, NothingOf
  <2>7. WantsOf' BY <2>4, <2>6, WantsGrow
  <2>8. UNCHANGED <<db, server, task>> BY <1>3 DEF Choose
  <2> QED BY <1>1, <2>5, <2>7, <2>8, AloneUnmixed
<1>4. CASE Edit
  <2>1. PICK f \in Fields[tab.provider] :
          tab' = [tab EXCEPT !.edited = TRUE, !.form[f.at.key] = Value(history.writes + 1, tab.provider, TRUE)]
    BY <1>4 DEF Edit
  <2>2. PICK v, p : v = Value(history.writes + 1, tab.provider, TRUE) /\ p = tab.provider OBVIOUS
  <2>3. v.for = p BY <2>2 DEF Value
  <2>4. /\ tab'.wants = tab.wants /\ tab'.provider = p /\ tab'.late = tab.late /\ tab'.draft = tab.draft
        /\ \A k \in FieldKeys : tab'.form[k] = tab.form[k] \/ tab'.form[k] = v
    BY <1>1, <2>1, <2>2 DEF TabType, Forms
  <2>5. UNCHANGED <<db, server, task>> BY <1>4 DEF Edit
  <2>6. Loading' <=> Loading BY <2>4, <2>5, LoadingFacts
  <2>7. FormOwn'
    <3> SUFFICES ASSUME ~tab'.late, ~Loading'
                 PROVE  AllOf(tab'.draft, p) /\ \A k \in FieldKeys : For(tab'.form[k], p)
      BY <2>4 DEF FormOwn, AllOf, ConfigOf, SecretsOf, For
    <3>1. AllOf(tab.draft, p) /\ \A k \in FieldKeys : For(tab.form[k], p) BY <2>2, <2>4, <2>6 DEF Unmixed, FormOwn
    <3>2. ASSUME NEW k \in FieldKeys PROVE For(tab'.form[k], p)
      <4>1. PICK x : x = tab'.form[k] OBVIOUS
      <4>2. x = tab.form[k] \/ x = v BY <2>4, <4>1
      <4>3. For(x, p) BY <2>3, <3>1, <4>2 DEF For
      <4> QED BY <4>1, <4>3
    <3> QED BY <2>4, <3>1, <3>2
  <2>8. WantsOf' BY <2>4 DEF Unmixed, WantsOf
  <2> QED BY <1>1, <2>5, <2>7, <2>8, AloneUnmixed
<1>5. ASSUME NEW v, PatchOf(v.patch, v.provider), UNCHANGED <<db, server, task>>,
             tab' = [tab EXCEPT !.busy = TRUE, !.since = None, !.wants = @ \cup {v}]
      PROVE  Unmixed'
  <2>1. /\ tab'.wants = tab.wants \cup {v} /\ tab'.late = tab.late
        /\ tab'.provider = tab.provider /\ tab'.form = tab.form /\ tab'.draft = tab.draft
    BY <1>1, <1>5 DEF TabType
  <2>2. Loading => Loading' BY <1>5, <2>1, LoadingFacts
  <2>3. FormOwn' BY <2>1, <2>2, TabOf
  <2>4. WantsOf' BY <1>5, <2>1, WantsGrow
  <2> QED BY <1>1, <1>5, <2>3, <2>4, AloneUnmixed
<1>6. CASE Save
  <2>1. PICK c : /\ c = tab.draft \/ c = Saved(tab.provider, tab.form)
                 /\ tab' = [tab EXCEPT !.busy = TRUE, !.since = None, !.wants = @ \cup {Wants("put", tab.provider, c)}]
    BY <1>6 DEF Save
  <2>2. ~Loading /\ ~tab.late
    <3>1. history' = [history EXCEPT !.mixed = @ \/ Loading \/ tab.late] BY <1>6 DEF Save
    <3>2. history'.mixed = (history.mixed \/ Loading \/ tab.late) BY <1>1, <3>1 DEF TypeInv, HistoryType
    <3> QED BY <3>2
  <2>3. PICK p \in Providers, form \in Forms : p = tab.provider /\ form = tab.form BY <1>1 DEF TabType
  <2>4. AllOf(tab.draft, p) /\ \A k \in FieldKeys : For(form[k], p) BY <2>2, <2>3 DEF Unmixed, FormOwn
  <2>5. AllOf(c, p) BY <2>1, <2>3, <2>4, SavedOf
  <2>6. PICK v : v = Wants("put", p, c) OBVIOUS
  <2>7. v.patch = c /\ v.provider = p BY <2>6 DEF Wants
  <2>8. PatchOf(v.patch, v.provider) BY <2>5, <2>7 DEF AllOf, PatchOf
  <2>9. UNCHANGED <<db, server, task>> BY <1>6 DEF Save
  <2> QED BY <1>5, <2>1, <2>3, <2>6, <2>8, <2>9
<1>7. CASE TabDisconnect
  <2>1. PICK v : v = Wants("disconnect", tab.provider, Disconnected) OBVIOUS
  <2>2. v.provider = "google_sheets" /\ v.patch = Disconnected BY <1>7, <2>1 DEF Wants, TabDisconnect, OauthConnect
  <2>3. PatchOf(v.patch, v.provider) BY <2>2, OauthFacts
  <2> QED BY <1>5, <1>7, <2>1, <2>3 DEF TabDisconnect
<1>8. CASE TabConnect
  <2>1. UNCHANGED <<db, server>> /\ tab' = Closed /\ \A a \in Actors : task'[a] = Orphan(a) BY <1>1, <1>8, TabConnectTyped
  <2>2. WantsOf' /\ FormOwn' BY <2>1, ClosedTyped, ClosedOf
  <2>3. ASSUME NEW a \in Actors PROVE TaskOf(task'[a])
    <3>1. PICK t, u : t = task[a] /\ u = Orphan(a) OBVIOUS
    <3>2. u.key = t.key /\ u.patch = t.patch /\ u.credential = t.credential BY <1>1, <3>1, OrphanFacts
    <3>3. TaskOf(t) BY <3>1 DEF Unmixed
    <3>4. TaskOf(u) BY <3>2, <3>3 DEF TaskOf
    <3> QED BY <2>1, <3>1, <3>4
  <2> QED BY <1>1, <2>1, <2>2, <2>3, UnmixedStep
<1> QED BY <1>2, <1>3, <1>4, <1>6, <1>7, <1>8

(* once a document of another has been saved, it stays saved *)
LEMMA MixedKept ==
  ASSUME TypeInv
  PROVE  /\ \A keys : Begun(keys).mixed = history.mixed /\ [Begun(keys) EXCEPT !.writes = @ + 1].mixed = history.mixed
                      /\ [Begun(keys) EXCEPT !.writes = history.writes + 1].mixed = history.mixed
                      /\ Doubted(keys).mixed = history.mixed
         /\ \A key, made : Ended(key, made).mixed = history.mixed
         /\ \A key, made, k : [Ended(key, made) EXCEPT !.version[k] = @ + 1].mixed = history.mixed
<1>1. history \in HistoryType BY DEF TypeInv
<1>2. ASSUME NEW keys
      PROVE  Begun(keys).mixed = history.mixed /\ [Begun(keys) EXCEPT !.writes = @ + 1].mixed = history.mixed
             /\ [Begun(keys) EXCEPT !.writes = history.writes + 1].mixed = history.mixed
  <2>1. PICK h \in HistoryType : h = Begun(keys) /\ h.mixed = history.mixed BY BegunFacts
  <2> QED BY <2>1 DEF HistoryType
<1>3. ASSUME NEW keys PROVE Doubted(keys).mixed = history.mixed
  BY <1>1 DEF Doubted, HistoryType
<1>4. ASSUME NEW key, NEW made
      PROVE  Ended(key, made).mixed = history.mixed
             /\ \A k : [Ended(key, made) EXCEPT !.version[k] = @ + 1].mixed = history.mixed
  BY <1>1 DEF Ended, HistoryType
<1> QED BY <1>2, <1>3, <1>4
LEMMA Raised ==
  ASSUME NEW e, NEW key, "mixed" \in DOMAIN e
  PROVE  [e EXCEPT !.version[key] = @ + 1].mixed = e.mixed
OBVIOUS

LEMMA MixedStays ==
  ASSUME TypeInv, [Next]_vars, history.mixed
  PROVE  history'.mixed
<1> SUFFICES ASSUME history' # history PROVE history'.mixed OBVIOUS
<1>1. ASSUME NEW h \in Slots, Request(h) PROVE history'.mixed
  <2>1. CASE Answered(h) BY <2>1 DEF Answered
  <2>2. CASE TabAnswered(h) BY <2>2 DEF TabAnswered
  <2>3. ASSUME NEW s \in Servers, Put(h, s) PROVE history'.mixed
    <3>1. PICK p : history' = [Begun({<<User, p>>}) EXCEPT !.writes = @ + 1] BY <2>3 DEF Put
    <3> QED BY <3>1, MixedKept
  <2>4. ASSUME NEW s \in Servers, Get(h, s) PROVE history'.mixed BY <2>4 DEF Get
  <2>5. ASSUME NEW s \in Servers, Disconnect(h, s) PROVE history'.mixed BY <2>5, MixedKept DEF Disconnect
  <2>6. ASSUME NEW s \in Servers, Callback(h, s) PROVE history'.mixed
    <3>1. PICK f \in DOMAIN flow : history' = [Begun({Sheets(Owner(f))}) EXCEPT !.writes = history.writes + 1]
      BY <2>6 DEF Callback, Exchanged
    <3> QED BY <3>1, MixedKept
  <2>7. ASSUME NEW s \in Servers, TabSends(h, s) PROVE history'.mixed
    <3>1. PICK w \in tab.wants : history' = Begun({<<User, w.provider>>}) BY <2>7 DEF TabSends
    <3> QED BY <3>1, MixedKept
  <2> QED BY <1>1, <2>1, <2>2, <2>3, <2>4, <2>5, <2>6, <2>7 DEF Request
<1>2. ASSUME NEW a \in Actors, Steps(a) PROVE history'.mixed
  <2>1. CASE Reread(a) \/ Load(a) \/ SaveSecrets(a) \/ WriteRow(a) BY <2>1 DEF Reread, Load, SaveSecrets, WriteRow
  <2>2. CASE Saves(a)
    <3>1. PICK key, made : history' = [Ended(key, made) EXCEPT !.version[key] = @ + 1] BY <2>2 DEF Saves
    <3>2. history \in HistoryType BY DEF TypeInv
    <3>3. PICK e : e = Ended(key, made) OBVIOUS
    <3>4. e.mixed = history.mixed /\ DOMAIN e = DOMAIN history BY <3>2, <3>3 DEF Ended, HistoryType
    <3>5. "mixed" \in DOMAIN e BY <3>2, <3>4 DEF HistoryType
    <3>6. history' = [e EXCEPT !.version[key] = @ + 1] BY <3>1, <3>3
    <3>7. [e EXCEPT !.version[key] = @ + 1].mixed = e.mixed BY <3>5, Raised
    <3> QED BY <3>4, <3>6, <3>7
  <2>3. CASE Fails(a) BY <2>3, MixedKept DEF Fails
  <2> QED BY <1>2, <2>1, <2>2, <2>3 DEF Steps
<1>3. ASSUME NEW s \in Servers, Process(s) PROVE history'.mixed
  <2>1. CASE StartUp(s) \/ MigrateSave(s) \/ Build(s) \/ Seeded(s)
    <3>1. CASE StartUp(s) BY <3>1 DEF StartUp
    <3>2. CASE MigrateSave(s) BY <3>2 DEF MigrateSave
    <3>3. CASE Build(s) BY <3>3 DEF Build
    <3>4. CASE Seeded(s) BY <3>4 DEF Seeded
    <3> QED BY <2>1, <3>1, <3>2, <3>3, <3>4
  <2>2. CASE MigrateSelect(s) BY <2>2, MixedKept DEF MigrateSelect
  <2>3. CASE MigrateWrite(s)
    <3>1. PICK key, made : history' = Ended(key, made) BY <2>3 DEF MigrateWrite
    <3> QED BY <3>1, MixedKept
  <2>4. CASE Seed(s) BY <2>4, MixedKept DEF Seed
  <2>5. CASE Crash(s) BY <2>5, MixedKept DEF Crash
  <2> QED BY <1>3, <2>1, <2>2, <2>3, <2>4, <2>5 DEF Process
<1>4. CASE Page
  <2>1. CASE Edit BY <2>1 DEF Edit, TypeInv, HistoryType
  <2>2. CASE Save BY <2>2 DEF Save, TypeInv, HistoryType
  <2>3. CASE Visit \/ Choose \/ TabDisconnect \/ TabConnect BY <2>3 DEF Visit, Choose, TabDisconnect, TabConnect
  <2> QED BY <1>4, <2>1, <2>2, <2>3 DEF Page
<1>5. CASE OauthStart \/ Tick \/ UNCHANGED vars BY <1>5 DEF OauthStart, Tick, vars
<1> QED BY <1>1, <1>2, <1>3, <1>4, <1>5 DEF Next, Actors

LEMMA ApartUnmixed ==
  ASSUME TypeInv, Unmixed, OauthStart \/ Tick \/ UNCHANGED vars
  PROVE  Unmixed'
<1>1. db' = db /\ server' = server /\ task' = task BY DEF OauthStart, Tick, vars
<1>2. WantsOf' /\ FormOwn' BY ApartElsewhere, ElsewhereTab
<1> QED BY <1>1, <1>2, AloneUnmixed

LEMMA StepMixed ==
  ASSUME Basics, MixedInv, [Next]_vars
  PROVE  MixedInv'
<1>1. TypeInv BY DEF Basics
<1>2. CASE history.mixed BY <1>1, <1>2, MixedStays DEF MixedInv
<1>3. CASE Unmixed
  <2>1. ASSUME NEW h \in Slots, Request(h) PROVE Unmixed'
    <3>1. ASSUME NEW s \in Servers, Put(h, s) \/ Get(h, s) \/ Disconnect(h, s) \/ Callback(h, s) PROVE Unmixed'
      BY <1>3, <3>1, OthersUnmixed
    <3>2. CASE Answered(h) BY <1>3, <3>2, AnsweredUnmixed
    <3>3. ASSUME NEW s \in Servers, TabSends(h, s) PROVE Unmixed' BY <1>3, <3>3, SendsUnmixed
    <3>4. CASE TabAnswered(h) BY <1>3, <3>4, AnswersUnmixed
    <3> QED BY <2>1, <3>1, <3>2, <3>3, <3>4 DEF Request
  <2>2. ASSUME NEW a \in Actors, Steps(a) PROVE Unmixed' BY <1>3, <2>2, StepsUnmixed
  <2>3. ASSUME NEW s \in Servers, Process(s) PROVE Unmixed' BY <1>3, <2>3, ProcessUnmixed
  <2>4. CASE Page BY <1>3, <2>4, MovesUnmixed DEF Page, MixedInv
  <2>5. CASE OauthStart \/ Tick \/ UNCHANGED vars BY <1>1, <1>3, <2>5, ApartUnmixed DEF MixedInv
  <2> QED BY <2>1, <2>2, <2>3, <2>4, <2>5 DEF Next, Actors, MixedInv
<1> QED BY <1>2, <1>3 DEF MixedInv

LEMMA InitMixed ==
  ASSUME Init
  PROVE  MixedInv
<1>1. PICK x \in Scenarios :
  /\ db = [rows |-> [key \in Keys |-> StoredRow(x.rows[key], x.kept)],
           vault |-> [key \in Keys |->
             IF x.rows[key] # None /\ Ref(x.kept, x.rows[key].secrets) = InVault THEN x.rows[key].secrets ELSE None]]
  /\ server = [s \in Servers |-> Fresh]
  /\ task = [a \in Slots \cup Servers |-> Idle]
  /\ tab = Closed
  BY DEF Init
<1>2. \A key \in Keys :
        /\ x.rows[key] \in {None} \cup Stored0(key[2])
        /\ db.rows[key] = None <=> x.rows[key] = None
        /\ db.rows[key] # None => /\ db.rows[key].config = x.rows[key].config
                                  /\ db.rows[key].ref = Ref(x.kept, x.rows[key].secrets)
                                  /\ x.rows[key].secrets \in Secrets
        /\ db.vault[key] = IF x.rows[key] # None /\ Ref(x.kept, x.rows[key].secrets) = InVault
                           THEN x.rows[key].secrets ELSE None
  BY <1>1, InitDb
<1>3. PICK b \in Backends : b = x.kept BY ScenariosAssumption DEF Scenario
<1>4. ASSUME NEW key \in Keys PROVE RowOf(key)
  <2>1. CASE db.rows[key] = None BY <1>2, <2>1 DEF RowOf
  <2>2. CASE db.rows[key] # None
    <3>1. PICK c \in Stored0(key[2]) : c = x.rows[key] BY <1>2, <2>2
    <3>2. ConfigOf(c.config, key[2]) /\ SecretsOf(c.secrets, key[2])
      <4>1. \A v \in First0(key[2]) : For(v, key[2]) BY DEF First0, For
      <4> QED BY <4>1 DEF Stored0, ConfigOf, SecretsOf
    <3>3. PICK e \in Secrets : e = c.secrets BY <1>2, <2>2, <3>1
    <3>4. Ref(b, e) # None => Ref(b, e) = InVault \/ Ref(b, e) = Encrypted(e) BY RefFacts
    <3>5. /\ db.rows[key].config = c.config /\ db.rows[key].ref = Ref(b, e)
          /\ db.vault[key] = None \/ db.vault[key] = e
      BY <1>2, <1>3, <2>2, <3>1, <3>3
    <3>6. db.rows[key].ref # None => SecretsOf(db.rows[key].ref.secrets, key[2])
      BY <3>2, <3>3, <3>4, <3>5, NothingOf DEF InVault, Encrypted
    <3> QED BY <3>2, <3>3, <3>5, <3>6 DEF RowOf
  <2> QED BY <2>1, <2>2
<1>5. \A s \in Servers : ServerOf(server[s]) BY <1>1, FreshTyped DEF ServerOf
<1>6. \A a \in Actors : TaskOf(task[a])
  <2>1. \A a \in Actors : task[a] = Idle BY <1>1 DEF Actors
  <2> QED BY <2>1, IdleOf
<1>7. WantsOf BY <1>1, ClosedTyped DEF WantsOf
<1>8. FormOwn BY <1>1, ClosedTyped, NothingOf DEF FormOwn
<1> QED BY <1>4, <1>5, <1>6, <1>7, <1>8 DEF MixedInv, Unmixed

LEMMA MixedHolds == Spec => [](Basics /\ MixedInv)
<1>1. Init => Basics /\ MixedInv BY InitBasics, InitMixed
<1>2. Basics /\ MixedInv /\ [Next]_vars => Basics' /\ MixedInv' BY StepBasics, StepMixed
<1> QED BY <1>1, <1>2, PTL DEF Spec

LEMMA MixedOnly ==
  ASSUME Basics, MixedInv
  PROVE  MixedOnlyIfLate
<1> SUFFICES ASSUME ~history.mixed, NEW key \in Keys, NEW c, c = Current(key)
             PROVE  /\ \A k \in ConfigNames : c.config[k] = None \/ c.config[k].for = key[2]
                    /\ \A k \in SecretNames : c.secrets[k] = None \/ c.secrets[k].for = key[2]
  BY DEF MixedOnlyIfLate
<1>1. AllOf(Current(key), key[2]) BY CurrentOf DEF Basics, MixedInv, Unmixed
<1>2. AllOf(c, key[2]) BY <1>1
<1> QED BY <1>2 DEF AllOf, ConfigOf, SecretsOf, For

(* The page shows what is stored, and saving what it shows changes nothing *)
(* and mixes nothing: what it knows of a version of a credential stays     *)
(* true until there is another version, the form that showed a credential  *)
(* whole saves the same settings, and every value is of its own provider   *)
(* until the page saves while it loads or after a late answer              *)
(* (CredentialsPage.tsx). *)
THEOREM PagesAreHonest == Spec => []PageHonest
<1>1. Spec => [](Basics /\ OrderInv /\ PageInv) BY PageHolds
<1>2. Spec => [](Basics /\ MixedInv) BY MixedHolds
<1>3. Spec => []FormKeepsSettings BY FormsKeepSettings
<1>4. Basics /\ OrderInv /\ PageInv => PageShowsStored BY PageSettled
<1>5. Basics /\ MixedInv => MixedOnlyIfLate BY MixedOnly
<1>6. PageShowsStored /\ FormKeepsSettings /\ MixedOnlyIfLate => PageHonest BY DEF PageHonest
<1> QED BY <1>1, <1>2, <1>3, <1>4, <1>5, <1>6, PTL
=============================================================================
