------------------------------ MODULE Providers ------------------------------
(***************************************************************************)
(* The provider clients of services/providers and the registry that maps a *)
(* WaterfallConfig's provider name to one of them.                         *)
(*                                                                         *)
(* A ProviderResult is abstracted to what the waterfall tells apart:       *)
(* whether it is a hit and, for an email hit, which address it carries.    *)
(* Credits, error texts and the phone and company payloads are left out.   *)
(***************************************************************************)
EXTENDS Naturals, FiniteSets

CONSTANTS
  Contacts,       \* primary keys of the contacts table
  Providers,      \* names that may occur in waterfall_configs.provider_name
  Emails,         \* addresses a provider may return, or a CSV file may hold
  NoEmail,        \* the NULL email
  HasCompany,     \* contacts whose company (with a domain) is known
  MockProviders,  \* registered providers that have no live API key
  MockEmail       \* MockEmail[c] is first.last@domain, the fake address of c

Fields == {"email", "phone", "company"}

\* PROVIDER_REGISTRY: the names get_provider knows; any other name raises.
Registry == {"hunter", "apollo"}

ASSUME ProvidersAssumption ==
  /\ Registry \subseteq Providers
  /\ HasCompany \subseteq Contacts
  /\ MockProviders \subseteq Registry
  /\ MockEmail \in [Contacts -> Emails]
  /\ NoEmail \notin Emails

\* supported_fields of the two clients.
SupportedFields(p) == IF p = "hunter" THEN {"email"} ELSE Fields

MaybeEmail == Emails \cup {NoEmail}

\* The results a call may produce: a hit's payload, a miss, or an exception
\* that leaves the client.
Hit(e) == [kind |-> "hit", email |-> e]
Miss   == [kind |-> "miss", email |-> NoEmail]
Raised == [kind |-> "raised", email |-> NoEmail]

\* HunterClient._call_api.  Transport errors and HTTP error statuses are
\* caught and become misses; the body is parsed outside the try, so a body
\* that is not the expected JSON escapes as an exception.
HunterApi(c) ==
  IF c \in HasCompany THEN {Hit(e) : e \in Emails} \cup {Miss, Raised} ELSE {Miss}

\* HunterClient.enrich, with _mock_result when there is no key.
Hunter(f, c) ==
  CASE f \notin SupportedFields("hunter") -> {Miss}
    [] f \in SupportedFields("hunter") /\ "hunter" \in MockProviders -> {Hit(MockEmail[c])}
    [] OTHER -> HunterApi(c)

\* ApolloClient.enrich: in mock mode every field is a hit, the live client is
\* not written yet and always misses.
Apollo(f, c) ==
  CASE "apollo" \notin MockProviders -> {Miss}
    [] OTHER -> {Hit(IF f = "email" THEN MockEmail[c] ELSE NoEmail)}

\* get_provider(p).enrich(f, c): an unknown name raises ValueError.
Outcomes(p, f, c) ==
  CASE p = "hunter" -> Hunter(f, c)
    [] p = "apollo" -> Apollo(f, c)
    [] OTHER -> {Raised}
=============================================================================
