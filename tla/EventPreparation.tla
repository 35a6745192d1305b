--------------------------- MODULE EventPreparation ---------------------------
(***************************************************************************)
(* What detect_patterns does to each event before the rules see it: the    *)
(* field mapping of field_mapping.py, then the two enrichers of            *)
(* enrichment.py, which accept continents and credential fingerprints from *)
(* upstream and let nothing else through.  Nested geo dicts are flattened  *)
(* to dotted keys.                                                         *)
(***************************************************************************)
EXTENDS WindowRules

CONSTANTS ContinentCode,  \* _normalize_continent: accepted spelling -> code
          Fingerprint     \* _normalize_credential_fingerprint: accepted -> normal form

Get(extra, key) == IF key \in DOMAIN extra THEN extra[key] ELSE None

(* Two dicts merged, what is in both taken from the first. *)
Over(extra, others) ==
    [k \in DOMAIN extra \cup DOMAIN others |-> IF k \in DOMAIN extra THEN extra[k] ELSE others[k]]

FirstKey(keys, given) == keys[Min({i \in DOMAIN keys : keys[i] \in given})]

(* The first key whose value is none of those that say nothing. *)
FirstOf(extra, keys, empty) ==
    LET given == {k \in ToSet(keys) : Get(extra, k) \notin empty}
    IN IF given = {} THEN None ELSE extra[FirstKey(keys, given)]

(* Field mapping drops more values than the rules do: it takes "none",     *)
(* "null", and any spelling in another case for empty.  Null stands for    *)
(* such a text, which the rules take for a name.                           *)
Null == "null"
Empty == Blank \cup {Null}

TextOf(value) == IF value \in Empty THEN None ELSE value

FirstText(extra, keys) == FirstOf(extra, keys, Empty)

CanonicalUser(e) ==
    LET explicit == TextOf(Get(e.extra, "user"))
    IN IF explicit # None THEN explicit
       ELSE CASE e.source = "nginx" -> TextOf(Get(e.extra, "remote_user"))
              [] e.source \in {"sshd", "windows", "okta"} -> TextOf(e.target)
              [] OTHER -> FirstText(e.extra, <<"remote_user", "subject_user">>)

CanonicalHost(e) == FirstText(e.extra, <<"host", "destination_host", "computer">>)

Derived(e) ==
    LET host == CanonicalHost(e)
        fields == [src_ip           |-> IF e.actor \in IPs THEN e.actor ELSE None,
                   user             |-> CanonicalUser(e),
                   host             |-> host,
                   destination_host |-> host,
                   process          |-> FirstText(e.extra, <<"process", "process_name">>),
                   http_method      |-> IF e.source = "nginx" THEN TextOf(Get(e.extra, "method")) ELSE None,
                   application      |-> IF e.source = "okta"
                                        THEN FirstText(e.extra, <<"application", "target_app">>) ELSE None]
        keys == {k \in DOMAIN fields : fields[k] # None}
    IN [k \in keys |-> fields[k]]

(* map_event: what upstream supplied wins, even where it says nothing.     *)
MapEvent(e) == [e EXCEPT !.extra = Over(e.extra, Derived(e))]

Without(extra, keys) == [k \in DOMAIN extra \ keys |-> extra[k]]

ContinentKeys == <<"continent.code", "continent.name", "continent", "continent_code",
                   "geo.continent.code", "geo.continent.name", "geo.continent", "geo.continent_code">>

GeoVersion == "upstream-v1"
CredentialVersion == "upstream-hmac-v1"

(* UpstreamGeoEnricher: the first key present decides, whether its value   *)
(* is valid or not; an invalid continent is removed.  An event that has    *)
(* the mark of this enricher is taken to have been through it; any other   *)
(* mark is written over.                                                   *)
EnrichGeo(e) ==
    LET given == ToSet(ContinentKeys) \cap DOMAIN e.extra
        value == e.extra[FirstKey(ContinentKeys, given)]
        rest == Without(e.extra, {"continent.code", "continent.name", "continent"})
        extra == IF given = {} THEN Over([geo_status |-> "missing"], e.extra)
                 ELSE IF value \in DOMAIN ContinentCode
                 THEN Over([continent |-> ContinentCode[value], geo_status |-> "provided"], rest)
                 ELSE Over([geo_status |-> "invalid"], rest)
    IN IF Get(e.extra, "geo_version") = GeoVersion THEN e
       ELSE [e EXCEPT !.extra = Over([geo_version |-> GeoVersion], extra)]

CredentialKeys == <<"credential_fingerprint", "password_fingerprint",
                    "credential_hash", "password_hash">>

(* Mutant: only the key that was read is removed. *)
RemovedOne(read) == {read}

Removed(read) == ToSet(CredentialKeys)

(* _credential_safe_evidence *)
SafeRaw(e) == Mentions({e.source, e.action, e.result, e.actor, e.target})

(* UpstreamCredentialEnricher: every credential key is removed, with the   *)
(* raw text, and a scoped HMAC put back in normal form.                    *)
EnrichCredential(e) ==
    LET given == ToSet(CredentialKeys) \cap DOMAIN e.extra
        read == FirstKey(CredentialKeys, given)
        rest == Without(e.extra, Removed(read))
        extra == IF given = {} THEN Over([credential_status |-> "missing"], e.extra)
                 ELSE IF e.extra[read] \in DOMAIN Fingerprint
                 THEN Over([password_fingerprint |-> Fingerprint[e.extra[read]],
                            credential_status |-> "provided"], rest)
                 ELSE Over([credential_status |-> "invalid"], rest)
    IN IF Get(e.extra, "credential_version") = CredentialVersion THEN e
       ELSE [e EXCEPT !.extra = Over([credential_version |-> CredentialVersion], extra),
                      !.raw = IF given = {} THEN e.raw ELSE SafeRaw(e)]

Prepared(e) == EnrichCredential(EnrichGeo(MapEvent(e)))

(* The fields the rules read, through event_value.                         *)
Flat(e) ==
    [ts |-> e.ts, actor |-> e.actor, action |-> e.action, target |-> e.target,
     result |-> e.result, source |-> e.source, raw |-> e.raw,
     user |-> Get(e.extra, "user"),
     remote_user |-> Get(e.extra, "remote_user"),
     host |-> OrMissing(Get(e.extra, "destination_host"), Get(e.extra, "host")),
     process |-> Get(e.extra, "process"),
     continent |-> Get(e.extra, "continent"),
     credential |-> FirstOf(e.extra, CredentialKeys, Blank)]
=============================================================================
