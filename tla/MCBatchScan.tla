----------------------------- MODULE MCBatchScan -----------------------------
(* A year has three months of two days, and every fourth year a day more:  *)
(* the second of the second month.  It is the first month of year 5.       *)
EXTENDS BatchScan

Now == [year |-> 5, month |-> 1]

Upto(n, items) == UNION {[1..k -> items] : k \in 0..n}

File(source, shapes, lists) ==
    [command : {"file"}, source : {source}, shape : shapes, lines : lists, now : {Now}]

-----------------------------------------------------------------------------

Text(form) == [form |-> form]

Sshd(form, says, y, m, d) ==
    [form |-> form, says |-> says, year |-> y, month |-> m, day |-> d, in_months |-> TRUE,
     user |-> "root", ip |-> "10.0.0.1", host |-> "h1"]

Nobody(line) == [line EXCEPT !.user = Null]
Misspelled(line) == [line EXCEPT !.in_months = FALSE]

SshdLines ==
    {Sshd("record", "Failed", 4, 2, 2), Sshd("record", "Failed", 4, 3, 1),
     Sshd("record", "Accepted", 4, 3, 2), Sshd("other", "", 4, 3, 2),
     Nobody(Sshd("record", "Failed", 5, 1, 1)), Sshd("record", "Invalid user", 5, 1, 2),
     Misspelled(Sshd("record", "Failed", 5, 1, 1)),
     Sshd("record", "Failed", 5, 0, 1), Text("noise")}

Evtx(ts, id, ip, target) ==
    [form |-> "record", ts |-> ts, event_id |-> id, ip |-> ip, subject_user |-> "svc",
     target_user |-> target, server |-> None, computer |-> "h2", process_name |-> "sudo"]

EvtxLines ==
    {Evtx(30, "4625", "10.0.0.2", "root"), Evtx(31, "4625", "10.0.0.2", "bob"),
     Evtx(31, "4624", Dash, None), Evtx(31, "4624", Dash, Null), Evtx(31, "4634", Dash, "root"),
     Text("noise"), Text("blank"), Text("cut")}

Path(static, segment, token) == [static |-> static, segment |-> segment, token |-> token]

Nginx(ts, user, method, path, status) ==
    [form |-> "record", ts |-> ts, ip |-> "10.0.0.1", user |-> user, method |-> method,
     path |-> path, status |-> status]

NginxLines ==
    {Nginx(30, Dash, "POST", Path(FALSE, TRUE, FALSE), 401),
     Nginx(30, "root", "POST", Path(FALSE, FALSE, TRUE), 302),
     Nginx(31, "root", "GET", Path(FALSE, TRUE, FALSE), 200),
     Nginx(31, Null, "GET", Path(FALSE, FALSE, FALSE), 500),
     Nginx(31, Dash, "POST", Path(TRUE, FALSE, TRUE), 403),
     Nginx(BadTime, Dash, "GET", Path(FALSE, FALSE, FALSE), 200), Text("noise")}

Okta(ts, type, user, app, ip, outcome) ==
    [form |-> "record", ts |-> ts, type |-> type, user |-> user, app |-> app, ip |-> ip,
     outcome |-> outcome]

OktaLines ==
    {Okta(30, "login", "root", None, "10.0.0.3", "failure"),
     Okta(31, "sso", "root", "wiki", None, "success"),
     Okta(31, "sso", Null, "wiki", None, "success"),
     Okta(31, "policy", "root", None, "10.0.0.3", "success"),
     Text("noise"), Text("blank"), Text("cut")}

Files ==
    File("sshd", {"lines"}, Upto(4, SshdLines))
      \cup File("evtx", {"lines", "document", "cut"}, Upto(3, EvtxLines))
      \cup File("nginx", {"lines"}, Upto(2, NginxLines))
      \cup File("okta", {"lines", "document"}, Upto(3, OktaLines))

-----------------------------------------------------------------------------

Normalized(ts, source, extra) ==
    [form |-> "normalized",
     event |-> [ts |-> ts, actor |-> "10.0.0.1", target |-> "root", source |-> source,
                action |-> "login", result |-> "success", raw |-> "sudo", extra |-> extra]]

Extras ==
    {[user |-> "bob"], [user |-> Dash, continent |-> "eu"], [user |-> Null, computer |-> Null],
     [continent |-> "atlantis", continent_code |-> "eu"],
     ("geo.continent.code" :> "na") @@ [password_hash |-> "hunter2"],
     [credential_fingerprint |-> "HMAC", password_hash |-> "hunter2"],
     [credential_hash |-> "hunter2", password_fingerprint |-> "HMAC"],
     [geo_version |-> "upstream-v1", continent |-> "atlantis"],
     [geo_version |-> "v0", continent |-> "atlantis"],
     [credential_version |-> "upstream-hmac-v1", password_fingerprint |-> "hmac"],
     [credential_version |-> "v0", password_hash |-> "hunter2"]}

MCContinentCode == ("eu" :> "EU") @@ ("EU" :> "EU") @@ ("na" :> "NA") @@ ("NA" :> "NA")
MCFingerprint == ("HMAC" :> "hmac") @@ ("hmac" :> "hmac")

Wrapped(item) == [form |-> "wrapped", raw |-> item]

Given(source, raw) ==
    {Normalized(30, source, extra) : extra \in Extras}
      \cup {Normalized(BadTime, source, <<>>)} \cup raw \cup {Wrapped(item) : item \in raw}

Payload(source, raw) ==
    [command : {"payload"}, source : {source}, items : Upto(2, Given(source, raw)), now : {Now}]

Payloads ==
    Payload("sshd", {Nobody(Sshd("record", "Failed", 4, 2, 1)), Sshd("record", "Failed", 4, 2, 2)})
      \cup Payload("okta", {Okta(31, "sso", "root", "wiki", None, "success"), Text("noise")})

-----------------------------------------------------------------------------

Doc(t, content) == [sort |-> t, content |-> content]

SomeSshd(d) == Sshd("record", "Failed", 5, 1, d)

DocLists ==
    {<<Doc(1, SomeSshd(1)), Doc(2, SomeSshd(2)), Doc(3, Normalized(12, "sshd", <<>>)),
       Doc(4, Text("noise")), Doc(5, SomeSshd(2))>>,
     <<Doc(1, SomeSshd(1)), Doc(2, SomeSshd(1)), Doc(2, SomeSshd(2)), Doc(3, SomeSshd(2))>>,
     <<Doc(1, Sshd("record", "Failed", 4, 2, 2)), Doc(2, Normalized(BadTime, "sshd", <<>>)),
       Doc(3, SomeSshd(1))>>}

Pulls ==
    UNION {[command : {"elastic"}, source : {"sshd"}, docs : DocLists, now : {Now},
            page_size : {sizes[1]}, max_pages : {sizes[2]}] : sizes \in {<<1, 4>>, <<2, 2>>, <<2, 3>>}}

MCInputs == Files \cup Payloads \cup Pulls

MCSeconds == [r \in Rules |-> 1]
MCThreshold == [r \in Rules |-> 2]
=============================================================================
