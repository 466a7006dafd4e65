----------------------------- MODULE Connections -----------------------------
(***************************************************************************)
(* Connection profiles, saved SSH connections, their secrets in the OS     *)
(* keychain and the pinned host keys (store.rs, sshconn.rs, secrets.rs,    *)
(* connect.rs, ssh.rs, share.rs), written by the commands of the desktop   *)
(* app and of the command line at the same time.                           *)
(*                                                                         *)
(* A request is a list of steps; a step is what runs between two awaits:   *)
(* one statement of SQLite (atomic, with the foreign keys the migrations   *)
(* declare), one call of the keychain, one look at a server.  A handler    *)
(* reads a row in one step and writes it back in a later one.  A record's  *)
(* name and its id are one here: both are unique.                          *)
(***************************************************************************)
EXTENDS Naturals, Sequences, FiniteSets

CONSTANTS
    Conns,           \* ids of saved SSH connections
    Profiles,        \* ids of connection profiles
    Endpoints,       \* host, port, user and way to authenticate
    NeedsPassphrase, \* the endpoints whose key file has a passphrase
    HostKeys,        \* what a server may present
    Reinstalled,     \* the endpoints whose server changes its key, at most once
    Clients,         \* requests under way at the same time
    Bundles,         \* configurations a team mate may have exported
    Starts,          \* the tables at the start
    None,
    MaxRequests      \* bound on the requests of a behaviour

ASSUME ConnectionsAssumption ==
    /\ NeedsPassphrase \subseteq Endpoints /\ Reinstalled \subseteq Endpoints
    /\ MaxRequests \in Nat
    /\ None \notin Conns \cup Profiles \cup Endpoints \cup HostKeys

VARIABLES
    conns,     \* table ssh_connections
    profiles,  \* table profiles: the column ssh_connection_id
    legacy,    \* the column profiles.ssh_config, before saved connections
    keychain,  \* the entries of the OS keychain, by owner and kind
    pinned,    \* table known_hosts
    offered,   \* the key each server presents
    client,    \* the steps each request has left; history: the records that
               \* others have written since it last read them
    session,   \* the last connection opened
    asked,     \* history: is each profile meant to have a tunnel?
    confirmed, \* history: the keys a user said to trust
    raced,     \* history: records written from what had changed since
    refused,   \* history: owners for whom the keychain refused a call
    reported,  \* history: profiles an import said it made direct
    used,      \* history: ids given out so far
    requests   \* history: requests so far

vars == <<conns, profiles, legacy, keychain, pinned, offered, client, session,
          asked, confirmed, raced, refused, reported, used, requests>>

ConnRow == [endpoint : Endpoints, jump : Conns \cup {None}]
Config  == [endpoint : Endpoints, jump : Endpoints \cup {None}]
Entries == (Conns \cup Profiles) \X {"db", "ssh"}
Records == Conns \cup Profiles \cup Endpoints \cup Entries
NoSession == [profile |-> None, direct |-> FALSE, keys |-> {}]

\* Rows, columns, entries and pins keep their types (store.rs, secrets.rs).
TypeOK ==
    /\ conns \in [Conns -> ConnRow \cup {None}]
    /\ profiles \in [Profiles -> [ssh : Conns \cup {None}] \cup {None}]
    /\ legacy \in [Profiles -> Config \cup {None}]
    /\ keychain \subseteq Entries
    /\ pinned \in [Endpoints -> HostKeys \cup {None}]
    /\ offered \in [Endpoints -> HostKeys]
    /\ session.profile \in Profiles \cup {None}
    /\ asked \in [Profiles -> BOOLEAN]
    /\ confirmed \subseteq Endpoints \X HostKeys
    /\ \A c \in Clients : client[c].stale \subseteq Records
    /\ raced \subseteq Records
    /\ requests \in 0 .. MaxRequests

\* A database some earlier run left behind: of this version, or of the
\* previous one, where a profile holds its tunnel itself and the passphrase
\* of every hop is filed under the profile.
Hops(config)  == {config.endpoint, config.jump} \ {None}
FirstKey      == CHOOSE k \in HostKeys : TRUE
OwnSecret(p)  == legacy[p] # None /\ Hops(legacy[p]) \cap NeedsPassphrase # {}
Init ==
    /\ \E s \in Starts : conns = s.conns /\ profiles = s.profiles /\ legacy = s.legacy
    /\ keychain = {<<p, "ssh">> : p \in {q \in Profiles : OwnSecret(q)}} \cup
                  {<<k, "ssh">> : k \in {j \in Conns : conns[j] # None
                                          /\ conns[j].endpoint \in NeedsPassphrase}}
    /\ \E k \in HostKeys \cup {None} : pinned = [e \in Endpoints |-> k]
    /\ offered = [e \in Endpoints |-> FirstKey]
    /\ client = [c \in Clients |-> [todo |-> <<>>, stale |-> {}]]
    /\ session = NoSession
    /\ asked = [p \in Profiles |-> profiles[p] # None /\
                 (legacy[p] # None \/ profiles[p].ssh # None)]
    /\ confirmed = {h \in Endpoints \X HostKeys : pinned[h[1]] = h[2]}
    /\ raced = {}
    /\ refused = {}
    /\ reported = {}
    /\ used = {p \in Profiles : profiles[p] # None} \cup {k \in Conns : conns[k] # None}
    /\ requests = 0

-----------------------------------------------------------------------------
\* How a request runs: its first step is replaced by the steps that follow.

Step(do, id, arg) == [do |-> do, id |-> id, arg |-> arg]
Store(entry)       == Step("set_secret", entry, [value |-> TRUE, undo |-> <<>>])
Clear(entry)       == Step("set_secret", entry, [value |-> FALSE, undo |-> <<>>])
At(c, do) == /\ client[c].todo # <<>>
             /\ Head(client[c].todo).do = do
The(c)    == Head(client[c].todo)

Request(steps, stale) ==
    [todo |-> steps, stale |-> IF steps = <<>> THEN {} ELSE stale]

Begin(c, steps) ==
    /\ client[c].todo = <<>>
    /\ requests < MaxRequests
    /\ requests' = requests + 1
    /\ client' = [client EXCEPT ![c] = Request(steps, {})]

\* A step that writes nothing others read: go on with steps, or give up.
\* What it reads of the tables is fresh again.
Reads(c, records, steps) ==
    client' = [client EXCEPT ![c] = Request(steps \o Tail(@.todo), @.stale \ records)]
Then(c, steps) == Reads(c, {}, steps)
Fail(c)        == client' = [client EXCEPT ![c] = Request(<<>>, {})]

\* A step that writes record, from what it has read of basis: the others'
\* knowledge of it is stale, and the write raced if some of the basis was.
Write(c, record, basis, steps) ==
    /\ client' = [d \in Clients |->
         IF d = c
         THEN Request(steps \o Tail(client[c].todo), client[c].stale \ {record})
         ELSE Request(client[d].todo, client[d].stale \cup {record})]
    /\ raced' = IF basis \cap client[c].stale # {} THEN raced \cup {record} ELSE raced

Exists(k) == k \in Conns /\ conns[k] # None
Rows      == {k \in Conns : Exists(k)}
People    == {p \in Profiles : profiles[p] # None}

tables  == <<conns, profiles, legacy>>
secrets == <<keychain, pinned, offered>>
ghosts  == <<session, asked, confirmed, refused, reported, used>>

-----------------------------------------------------------------------------
\* Saved SSH connections.

\* Mutant: the query asks whom k jumps through, not who jumps through k.
DependentsTurnedRound(k) == {d \in Rows : Exists(k) /\ conns[k].jump = d}

\* Store::ssh_connections_jumping_through.
Dependents(k) == {d \in Rows : conns[d].jump = k}

\* Store::check_jump_host, one direction and then the other: the jump host
\* has none of its own, and nobody jumps through this connection.
CheckJumpHost(c) ==
    LET k == The(c).id  row == The(c).arg IN
    /\ At(c, "check_jump")
    /\ IF row.jump = None THEN Then(c, <<>>)
       ELSE IF row.jump # k /\ Exists(row.jump) /\ conns[row.jump].jump = None
       THEN Reads(c, {row.jump}, <<Step("check_dependents", k, row.jump)>>)
       ELSE Fail(c)
    /\ UNCHANGED <<tables, secrets, ghosts, raced, requests>>

\* One query over the table; also the second look of a deletion.
CheckDependents(c) ==
    LET k == The(c).id IN
    /\ At(c, "check_dependents")
    /\ IF Dependents(k) = {} THEN Reads(c, Conns \ {k, The(c).arg}, <<>>) ELSE Fail(c)
    /\ UNCHANGED <<tables, secrets, ghosts, raced, requests>>

\* The patch of an update: "keep" is a field that was not sent.
Patched(row, patch) ==
    [endpoint |-> IF patch.endpoint = "keep" THEN row.endpoint ELSE patch.endpoint,
     jump     |-> IF patch.jump = "keep" THEN row.jump ELSE patch.jump]

\* Store::update_ssh_connection reads the row, applies the patch to it and
\* writes the whole of it back.
LoadConn(c) ==
    LET k == The(c).id IN
    /\ At(c, "load_conn")
    /\ IF Exists(k)
       THEN LET row == Patched(conns[k], The(c).arg)
            IN  Reads(c, {k}, <<Step("check_jump", k, row), Step("write_conn", k, row)>>)
       ELSE Fail(c)
    /\ UNCHANGED <<tables, secrets, ghosts, raced, requests>>

\* A row is written from its own last value and from what was found of its
\* jump host and of the rows that jump through it.
Basis(k, row) == {k, row.jump} \cup Dependents(k)

\* UPDATE ... WHERE id: no row, no change; the foreign key holds.
WriteConn(c) ==
    LET k == The(c).id  row == The(c).arg IN
    /\ At(c, "write_conn")
    /\ IF row.jump = None \/ Exists(row.jump)
       THEN /\ Write(c, k, Basis(k, row), <<>>)
            /\ conns' = IF Exists(k) THEN [conns EXCEPT ![k] = row] ELSE conns
       ELSE Fail(c) /\ UNCHANGED <<conns, raced>>
    /\ UNCHANGED <<profiles, legacy, secrets, ghosts, requests>>

\* The INSERT of create_ssh_connection; the name may be taken.
InsertConn(c) ==
    LET k == The(c).id  row == The(c).arg IN
    /\ At(c, "insert_conn")
    /\ \/ /\ ~Exists(k) /\ (row.jump = None \/ Exists(row.jump))
          /\ Write(c, k, Basis(k, row), <<>>)
          /\ conns' = [conns EXCEPT ![k] = row]
       \/ /\ Exists(k) \/ Rows # {} \/ (row.jump # None /\ ~Exists(row.jump))
          /\ Fail(c)
          /\ UNCHANGED <<conns, raced>>
    /\ UNCHANGED <<profiles, legacy, secrets, ghosts, requests>>

ProfilesUsing(k) == {p \in People : profiles[p].ssh = k}

\* delete_ssh_connection asks for the row, the profiles that use it and the
\* connections that jump through it before it deletes.
DeletionOf(k) == <<Step("require_conn", k, None), Step("check_profiles", k, None),
                   Step("check_dependents", k, None), Step("remove_conn", k, None)>>

CheckProfiles(c) ==
    /\ At(c, "check_profiles")
    /\ IF ProfilesUsing(The(c).id) = {} THEN Then(c, <<>>) ELSE Fail(c)
    /\ UNCHANGED <<tables, secrets, ghosts, raced, requests>>

\* ON DELETE RESTRICT refuses what the look missed; the passphrase goes
\* once a row has gone (ops::forget_ssh_connection).
RemoveConn(c) ==
    LET k == The(c).id IN
    /\ At(c, "remove_conn")
    /\ IF Exists(k) /\ ProfilesUsing(k) \cup Dependents(k) = {}
       THEN /\ Write(c, k, {}, <<Clear(<<k, "ssh">>)>>)
            /\ conns' = [conns EXCEPT ![k] = None]
       ELSE Fail(c) /\ UNCHANGED <<conns, raced>>
    /\ UNCHANGED <<profiles, legacy, secrets, ghosts, requests>>

-----------------------------------------------------------------------------
\* Connection profiles.

\* Store::require_ssh_connection.
RequireConn(c) ==
    /\ At(c, "require_conn")
    /\ IF Exists(The(c).id) THEN Reads(c, {The(c).id}, <<>>) ELSE Fail(c)
    /\ UNCHANGED <<tables, secrets, ghosts, raced, requests>>

RequireProfile(c) ==
    /\ At(c, "require_profile")
    /\ IF The(c).id \in People THEN Reads(c, {The(c).id}, <<>>) ELSE Fail(c)
    /\ UNCHANGED <<tables, secrets, ghosts, raced, requests>>

NeedsConn(s) == IF s \in Conns THEN <<Step("require_conn", s, None)>> ELSE <<>>

\* Mutant: a field that was not sent and one sent as null are the same.
PatchedSshCollapsed(row, patch) == IF patch = "keep" THEN None ELSE patch

\* ProfileUpdate.ssh_connection_id: not sent, null, or a connection.
PatchedSsh(row, patch) == IF patch = "keep" THEN row.ssh ELSE patch

LoadProfile(c) ==
    LET p == The(c).id  patch == The(c).arg IN
    /\ At(c, "load_profile")
    /\ IF p \in People
       THEN Reads(c, {p}, NeedsConn(patch) \o
                    <<Step("write_profile", p,
                           [ssh |-> PatchedSsh(profiles[p], patch),
                            wanted |-> patch])>>)
       ELSE Fail(c)
    /\ UNCHANGED <<tables, secrets, ghosts, raced, requests>>

Wanted(p, patch) ==
    IF patch = "keep" THEN asked ELSE [asked EXCEPT ![p] = patch # None]

\* UPDATE profiles leaves the column ssh_config alone.
WriteProfile(c) ==
    LET p == The(c).id  row == The(c).arg IN
    /\ At(c, "write_profile")
    /\ IF row.ssh = None \/ Exists(row.ssh)
       THEN /\ Write(c, p, {p}, <<>>)
            /\ profiles' = IF p \in People
                           THEN [profiles EXCEPT ![p] = [ssh |-> row.ssh]]
                           ELSE profiles
            /\ asked' = Wanted(p, row.wanted)
       ELSE Fail(c) /\ UNCHANGED <<profiles, asked, raced>>
    /\ UNCHANGED <<conns, legacy, secrets, session, confirmed, refused, reported, used, requests>>

InsertProfile(c) ==
    LET p == The(c).id  s == The(c).arg IN
    /\ At(c, "insert_profile")
    /\ \/ /\ p \notin People /\ (s = None \/ Exists(s))
          /\ Write(c, p, {}, <<>>)
          /\ profiles' = [profiles EXCEPT ![p] = [ssh |-> s]]
          /\ asked' = [asked EXCEPT ![p] = s # None]
       \/ /\ People # {} \/ (s # None /\ ~Exists(s))
          /\ Fail(c)
          /\ UNCHANGED <<profiles, asked, raced>>
    /\ UNCHANGED <<conns, legacy, secrets, session, confirmed, refused, reported, used, requests>>

\* The row goes first, then everything filed under it.
RemoveProfile(c) ==
    LET p == The(c).id IN
    /\ At(c, "remove_profile")
    /\ IF p \in People
       THEN /\ Write(c, p, {}, The(c).arg)
            /\ profiles' = [profiles EXCEPT ![p] = None]
            /\ legacy' = [legacy EXCEPT ![p] = None]
       ELSE Fail(c) /\ UNCHANGED <<profiles, legacy, raced>>
    /\ UNCHANGED <<conns, secrets, ghosts, requests>>

\* secrets::delete_all_for_profile clears the password, then the passphrase
\* an older version filed under the profile.
PurgeOf(p) == <<Clear(<<p, "db">>), Clear(<<p, "ssh">>)>>

\* secrets::set_secret; an empty value deletes.  When the keychain refuses,
\* a row created a moment ago is taken back; any other handler gives up.
SetSecret(c) ==
    LET entry == The(c).id  arg == The(c).arg IN
    /\ At(c, "set_secret")
    /\ \/ /\ Write(c, entry, {entry[1]}, <<>>)
          /\ keychain' = IF arg.value THEN keychain \cup {entry}
                                      ELSE keychain \ {entry}
          /\ UNCHANGED refused
       \/ /\ client' = [client EXCEPT ![c] = Request(arg.undo, @.stale)]
          /\ refused' = refused \cup {entry[1]}
          /\ UNCHANGED <<keychain, raced>>
    /\ UNCHANGED <<tables, pinned, offered, session, asked, confirmed, reported, used, requests>>

-----------------------------------------------------------------------------
\* The requests: commands of the app, subcommands of the command line.

Fresh(S) == S \ used
Issue(c, ids, steps) ==
    /\ Begin(c, steps)
    /\ used' = used \cup ids
    /\ UNCHANGED <<tables, secrets, session, asked, confirmed, refused, reported, raced>>

CreateProfile(c) ==
    \E p \in Fresh(Profiles), s \in Rows \cup {None}, password \in BOOLEAN :
        Issue(c, {p}, NeedsConn(s) \o <<Step("insert_profile", p, s)>> \o
            IF password
            THEN <<Step("set_secret", <<p, "db">>,
                   [value |-> TRUE, undo |-> <<Step("remove_profile", p, <<>>)>>])>>
            ELSE <<>>)

UpdateProfile(c) ==
    \E p \in People, patch \in {"keep", None} \cup Rows :
        Issue(c, {}, <<Step("load_profile", p, patch)>>)

DeleteProfile(c) ==
    \E p \in People : Issue(c, {}, <<Step("remove_profile", p, PurgeOf(p))>>)

SetProfileSecret(c) ==
    \E p \in People, value \in BOOLEAN :
        Issue(c, {}, <<Step("require_profile", p, None),
                       IF value THEN Store(<<p, "db">>) ELSE Clear(<<p, "db">>)>>)

CreateSshConnection(c) ==
    \E k \in Fresh(Conns), e \in Endpoints, j \in Rows \cup {None} :
        LET row == [endpoint |-> e, jump |-> j] IN
        Issue(c, {k}, <<Step("check_jump", k, row), Step("insert_conn", k, row)>> \o
            IF e \in NeedsPassphrase
            THEN <<Step("set_secret", <<k, "ssh">>,
                   [value |-> TRUE, undo |-> DeletionOf(k)])>>
            ELSE <<>>)

UpdateSshConnection(c) ==
    \E k \in Rows, patch \in [endpoint : Endpoints \cup {"keep"},
                              jump : Rows \cup {None, "keep"}] :
        /\ patch.endpoint = "keep" \/ patch.jump = "keep"
        /\ Issue(c, {}, <<Step("load_conn", k, patch)>>)

DeleteSshConnection(c) ==
    \E k \in Rows : Issue(c, {}, DeletionOf(k))

SetSshConnectionPassphrase(c) ==
    \E k \in Rows, value \in BOOLEAN :
        Issue(c, {}, <<Step("require_conn", k, None),
                       IF value THEN Store(<<k, "ssh">>) ELSE Clear(<<k, "ssh">>)>>)

-----------------------------------------------------------------------------
\* Host keys.

\* trust_host_key reads what is pinned, decides, and writes in a later step.
TrustHostKey(c) ==
    \E e \in Endpoints, replace \in BOOLEAN :
        /\ Begin(c, <<Step("read_pin", e, [key |-> offered[e], replace |-> replace])>>)
        /\ UNCHANGED <<tables, secrets, ghosts, raced>>

\* Mutant: the comparison of the two fingerprints is turned round.
ContradictedBySame(e, arg) == pinned[e] = arg.key /\ ~arg.replace

Contradicted(e, arg) == pinned[e] \notin {None, arg.key} /\ ~arg.replace

ReadPin(c) ==
    LET e == The(c).id  arg == The(c).arg IN
    /\ At(c, "read_pin")
    /\ IF Contradicted(e, arg)
       THEN Fail(c)
       ELSE Reads(c, {e}, <<Step(IF pinned[e] = None THEN "remember_host"
                                                     ELSE "replace_host_key", e, arg)>>)
    /\ UNCHANGED <<tables, secrets, ghosts, raced, requests>>

\* INSERT ... ON CONFLICT DO NOTHING.
RememberHost(c) ==
    LET e == The(c).id IN
    /\ At(c, "remember_host")
    /\ Write(c, e, {}, <<>>)
    /\ pinned' = IF pinned[e] = None THEN [pinned EXCEPT ![e] = The(c).arg.key]
                                      ELSE pinned
    /\ confirmed' = confirmed \cup {<<e, The(c).arg.key>>}
    /\ UNCHANGED <<tables, keychain, offered, session, asked, refused, reported, used, requests>>

ReplaceHostKey(c) ==
    LET e == The(c).id IN
    /\ At(c, "replace_host_key")
    /\ Write(c, e, {}, <<>>)
    /\ pinned' = [pinned EXCEPT ![e] = The(c).arg.key]
    /\ confirmed' = confirmed \cup {<<e, The(c).arg.key>>}
    /\ UNCHANGED <<tables, keychain, offered, session, asked, refused, reported, used, requests>>

\* Not the program: a server is reinstalled, or is not the server.
ServerKeyChanges(e) ==
    /\ e \in Reinstalled /\ offered[e] = FirstKey
    /\ \E k \in HostKeys \ {FirstKey} : offered' = [offered EXCEPT ![e] = k]
    /\ UNCHANGED <<tables, keychain, pinned, client, ghosts, raced, requests>>

-----------------------------------------------------------------------------
\* Opening a connection: the profile, its route, the keychain, each hop.

OpenConnection(c) ==
    \E p \in People :
        /\ Begin(c, IF profiles[p].ssh = None
                    THEN <<Step("connect", p, [direct |-> TRUE, keys |-> {}])>>
                    ELSE <<Step("resolve_ssh", p, profiles[p].ssh)>>)
        /\ UNCHANGED <<tables, secrets, ghosts, raced>>

\* Store::resolve_ssh: the connection, then the one it jumps through, and
\* no further.
ResolveSsh(c) ==
    LET p == The(c).id  k == The(c).arg IN
    /\ At(c, "resolve_ssh")
    /\ IF ~Exists(k) THEN Fail(c)
       ELSE Then(c, (IF conns[k].jump = None THEN <<>>
                     ELSE <<Step("resolve_jump", p, conns[k].jump)>>) \o
                    <<Step("credentials", k, conns[k].endpoint),
                      Step("verify", p, conns[k].endpoint),
                      Step("connect", p, [direct |-> FALSE, keys |-> {}])>>)
    /\ UNCHANGED <<tables, secrets, ghosts, raced, requests>>

ResolveJump(c) ==
    LET p == The(c).id  k == The(c).arg IN
    /\ At(c, "resolve_jump")
    /\ IF ~Exists(k) THEN Fail(c)
       ELSE Then(c, <<Step("credentials", k, conns[k].endpoint),
                      Step("verify", p, conns[k].endpoint)>>)
    /\ UNCHANGED <<tables, secrets, ghosts, raced, requests>>

\* connect::resolve_credentials and ssh::authenticate: a key file with a
\* passphrase opens only with the entry filed under that connection.
Authenticate(c) ==
    LET k == The(c).id  e == The(c).arg IN
    /\ At(c, "credentials")
    /\ IF e \in NeedsPassphrase => <<k, "ssh">> \in keychain
       THEN Then(c, <<>>) ELSE Fail(c)
    /\ UNCHANGED <<tables, secrets, ghosts, raced, requests>>

\* Mutant: an unknown host key is accepted without asking.
TrustedOnFirstUse(e) == pinned[e] \in {None, offered[e]}

\* StoreHostKeyVerifier::verify.
Trusted(e) == pinned[e] = offered[e]

WithKey(steps, key) ==
    [i \in 1 .. Len(steps) |->
        IF steps[i].do = "connect"
        THEN [steps[i] EXCEPT !.arg.keys = @ \cup {key}] ELSE steps[i]]

Verify(c) ==
    LET e == The(c).arg IN
    /\ At(c, "verify")
    /\ IF Trusted(e)
       THEN client' = [client EXCEPT ![c].todo = WithKey(Tail(@), <<e, offered[e]>>)]
       ELSE Fail(c)
    /\ UNCHANGED <<tables, secrets, ghosts, raced, requests>>

Connect(c) ==
    /\ At(c, "connect")
    /\ Then(c, <<>>)
    /\ session' = [profile |-> The(c).id, direct |-> The(c).arg.direct,
                   keys |-> The(c).arg.keys]
    /\ UNCHANGED <<tables, secrets, asked, confirmed, raced, refused, reported, used, requests>>

-----------------------------------------------------------------------------
\* Start-up: adopt_legacy_configs turns every inline tunnel into a saved
\* connection, one per server, and moves its passphrase.

Unadopted == {p \in People : legacy[p] # None /\ profiles[p].ssh = None}

AdoptLegacyConfigs(c) ==
    /\ Unadopted # {}
    /\ \E p \in Unadopted :
         /\ Begin(c, <<Step("adopt", p, [config |-> legacy[p], jump |-> None,
                                       last |-> "attach"])>>)
         /\ UNCHANGED <<tables, secrets, ghosts, raced>>

\* adopt_endpoint, for the jump host first: an equal connection is shared.
Adopt(c) ==
    LET p == The(c).id  cfg == The(c).arg.config  j == The(c).arg.jump
        hop   == IF cfg.jump # None /\ j = None THEN cfg.jump ELSE cfg.endpoint
        row   == [endpoint |-> hop, jump |-> j]
        found == {k \in Rows : conns[k] = row}
        next(k) == IF cfg.jump # None /\ j = None
                   THEN Step("adopt", p, [The(c).arg EXCEPT !.jump = k])
                   ELSE Step(The(c).arg.last, p, [ssh |-> k, config |-> cfg])
    IN
    /\ At(c, "adopt")
    /\ IF found # {}
       THEN \E k \in found : Then(c, <<next(k)>>) /\ UNCHANGED used
       ELSE \E k \in Fresh(Conns) :
              /\ Then(c, <<Step("check_jump", k, row), Step("insert_conn", k, row),
                           next(k)>>)
              /\ used' = used \cup {k}
    /\ UNCHANGED <<tables, secrets, session, asked, confirmed, refused, reported, raced, requests>>

\* Mutant: the old entry is cleared before the new one is filed.
MovesClearingFirst(p, k, cfg) ==
    IF Hops(cfg) \cap NeedsPassphrase # {} /\ <<p, "ssh">> \in keychain
    THEN <<Clear(<<p, "ssh">>), Store(<<k, "ssh">>)>> ELSE <<>>

\* move_passphrase: copied to the connection, then cleared; a keychain that
\* refuses is only a warning.
Moves(p, k, cfg) ==
    IF Hops(cfg) \cap NeedsPassphrase # {} /\ <<p, "ssh">> \in keychain
    THEN <<Store(<<k, "ssh">>), Clear(<<p, "ssh">>)>> ELSE <<>>

\* attach_ssh_connection: both columns in one statement.
Attach(c) ==
    LET p == The(c).id  arg == The(c).arg IN
    /\ At(c, "attach")
    /\ IF Exists(arg.ssh)
       THEN /\ Write(c, p, {}, Moves(p, arg.ssh, arg.config))
            /\ profiles' = IF p \in People THEN [profiles EXCEPT ![p].ssh = arg.ssh]
                                           ELSE profiles
            /\ legacy' = [legacy EXCEPT ![p] = None]
       ELSE Fail(c) /\ UNCHANGED <<profiles, legacy, raced>>
    /\ UNCHANGED <<conns, secrets, ghosts, requests>>

-----------------------------------------------------------------------------
\* share::import, matching by name: connections without their jump hosts,
\* then the jump hosts, then the profiles.

SshEntry(b, k) ==
    IF Exists(k)
    THEN <<Step("load_conn", k, [endpoint |-> b.ssh[k].endpoint, jump |-> "keep"])>>
    ELSE LET row == [endpoint |-> b.ssh[k].endpoint, jump |-> None]
         IN  <<Step("check_jump", k, row), Step("insert_conn", k, row)>>

ImportSsh(c) ==
    /\ At(c, "import_ssh")
    /\ Then(c, SshEntry(The(c).arg, The(c).id))
    /\ UNCHANGED <<tables, secrets, ghosts, raced, requests>>

\* A reference to a connection the bundle does not carry is dropped, and
\* listed in the report.
ImportJump(c) ==
    LET k == The(c).id  j == The(c).arg.ssh[k].jump IN
    /\ At(c, "import_jump")
    /\ Then(c, IF j \in DOMAIN The(c).arg.ssh
               THEN <<Step("load_conn", k, [endpoint |-> "keep", jump |-> j])>>
               ELSE <<>>)
    /\ UNCHANGED <<tables, secrets, ghosts, raced, requests>>

ImportProfile(c) ==
    LET p == The(c).id  s == The(c).arg.profiles[p]
        ssh == IF s \in DOMAIN The(c).arg.ssh THEN s ELSE None IN
    /\ At(c, "import_profile")
    /\ Then(c, <<Step("place", p, [ssh |-> ssh])>>)
    /\ reported' = IF s # ssh THEN reported \cup {p} ELSE reported
    /\ UNCHANGED <<tables, secrets, session, asked, confirmed, refused, used, raced,
                   requests>>

\* adopt_inline_ssh: a bundle of the previous version carries the tunnel in
\* the profile; it becomes a saved connection as in the upgrade.
ImportInline(c) ==
    LET p == The(c).id IN
    /\ At(c, "import_inline")
    /\ Then(c, <<Step("adopt", p, [config |-> The(c).arg.inline[p], jump |-> None,
                                   last |-> "place"])>>)
    /\ UNCHANGED <<tables, secrets, ghosts, raced, requests>>

\* A profile of that name is updated, tunnel included; otherwise created.
PlaceProfile(c) ==
    LET p == The(c).id  ssh == The(c).arg.ssh IN
    /\ At(c, "place")
    /\ Reads(c, {p}, IF p \in People THEN <<Step("load_profile", p, ssh)>>
               ELSE NeedsConn(ssh) \o <<Step("insert_profile", p, ssh)>>)
    /\ UNCHANGED <<tables, secrets, ghosts, raced, requests>>

Each(do, S, b) ==
    LET order == CHOOSE f \in [1 .. Cardinality(S) -> S] :
                   \A x \in S : \E i \in 1 .. Cardinality(S) : f[i] = x
    IN  [i \in 1 .. Cardinality(S) |-> Step(do, order[i], b)]

ImportBundle(c) ==
    \E b \in Bundles :
        /\ \A k \in DOMAIN b.ssh : Exists(k) \/ k \notin used
        /\ \A p \in DOMAIN b.profiles \cup DOMAIN b.inline : p \in People \/ p \notin used
        /\ Issue(c, DOMAIN b.ssh \cup DOMAIN b.profiles \cup DOMAIN b.inline,
                 Each("import_ssh", DOMAIN b.ssh, b) \o
                 Each("import_jump", {k \in DOMAIN b.ssh : b.ssh[k].jump # None}, b) \o
                 Each("import_profile", DOMAIN b.profiles, b) \o
                 Each("import_inline", DOMAIN b.inline, b))

-----------------------------------------------------------------------------
Requests(c) ==
    \/ CreateProfile(c) \/ UpdateProfile(c) \/ DeleteProfile(c)
    \/ SetProfileSecret(c) \/ CreateSshConnection(c) \/ UpdateSshConnection(c)
    \/ DeleteSshConnection(c) \/ SetSshConnectionPassphrase(c)
    \/ TrustHostKey(c) \/ OpenConnection(c) \/ AdoptLegacyConfigs(c)
    \/ ImportBundle(c)

Steps(c) ==
    \/ CheckJumpHost(c) \/ LoadConn(c) \/ WriteConn(c) \/ InsertConn(c)
    \/ CheckDependents(c) \/ CheckProfiles(c) \/ RemoveConn(c) \/ RequireConn(c) \/ RequireProfile(c)
    \/ LoadProfile(c) \/ WriteProfile(c) \/ InsertProfile(c) \/ RemoveProfile(c)
    \/ SetSecret(c) \/ ReadPin(c) \/ RememberHost(c) \/ ReplaceHostKey(c)
    \/ ResolveSsh(c) \/ ResolveJump(c) \/ Authenticate(c) \/ Verify(c)
    \/ Connect(c) \/ Adopt(c) \/ Attach(c) \/ ImportSsh(c) \/ ImportJump(c)
    \/ ImportProfile(c) \/ ImportInline(c) \/ PlaceProfile(c)

Next ==
    \/ \E c \in Clients : Requests(c) \/ Steps(c)
    \/ \E e \in Endpoints : ServerKeyChanges(e)

Spec == Init /\ [][Next]_vars

-----------------------------------------------------------------------------
\* Whatever the requests and their order, a profile and a jump host name a
\* connection that exists (store.rs, delete_ssh_connection: "deleting it out
\* from under a profile would leave a tunnelled connection silently
\* connecting directly").
ReferencesResolve ==
    /\ \A p \in People : profiles[p].ssh = None \/ Exists(profiles[p].ssh)
    /\ \A k \in Rows : conns[k].jump = None \/ Exists(conns[k].jump)

\* resolve_ssh follows one jump and no more, so a chain would be cut short.
\* check_jump_host keeps chains out of the table, unless one of the two rows
\* was written from a read of the other that was out of date.
NoChainedJumps ==
    \A k \in Rows : conns[k].jump # None /\ conns[conns[k].jump].jump # None =>
        {k, conns[k].jump} \cap raced # {}

\* This step is one of c's.
Takes(c) == client'[c].todo # client[c].todo

Tunnelled(p) == profiles[p].ssh # None \/ legacy[p] # None

\* A profile that had or was given a tunnel loses it only when somebody asks
\* or an import reports it; not by an edit of another field, the upgrade, or
\* the import of a bundle.  Excepted is a profile whose row was written from
\* a read that was out of date.
TunnelsAreNotLost ==
    \A p \in People \ reported : asked[p] => Tunnelled(p) \/ p \in raced

\* Once its request is over, no keychain entry outlives its record: the
\* product would have no way left to remove it.  Excepted is an entry filed
\* for an owner that was found before somebody removed it.
SecretsHaveOwners ==
    \A entry \in keychain :
      \/ entry[1] \in Rows \cup People \cup refused
      \/ entry \in raced
      \/ \E c \in Clients : \E i \in DOMAIN client[c].todo :
           client[c].todo[i].id = entry

\* A session runs only over servers whose key a user once confirmed for that
\* address; a changed key is not accepted.
SessionsAreConfirmed == session.keys \subseteq confirmed

\* A pinned key is replaced only by a request that says so.  Excepted is a
\* request that found the same key pinned and confirms it after another has
\* replaced it.
PinsAreReplacedOnPurpose ==
    [][\A e \in Endpoints : pinned[e] # None /\ pinned'[e] # pinned[e] =>
         \E c \in Clients : /\ Takes(c) /\ At(c, "replace_host_key")
                            /\ The(c).id = e
                            /\ The(c).arg.replace \/ e \in client[c].stale]_vars

\* The upgrade copies a passphrase before it deletes it: an entry filed under
\* a profile goes only with the profile, or once the connection the profile
\* now uses has it (sshconn.rs, "an interrupted move loses nothing").
\* Excepted is a move during which another request gave the profile another
\* tunnel or changed the connection's own entry.
PassphrasesSurviveTheUpgrade ==
    [][\A p \in People : <<p, "ssh">> \in keychain \ keychain' =>
         LET entry == <<profiles[p].ssh, "ssh">> IN
         \/ entry \in keychain
         \/ \E c \in Clients : /\ Takes(c) /\ At(c, "set_secret")
                               /\ The(c).id = <<p, "ssh">>
                               /\ {p, entry} \cap client[c].stale # {}]_vars

\* However requests cross, references resolve; a jump host has no jump host
\* and a keychain entry has an owner, but for the records that were written
\* from a read out of date (store.rs, secrets.rs).
TablesAreSound ==
    /\ TypeOK
    /\ ReferencesResolve
    /\ NoChainedJumps
    /\ SecretsHaveOwners

\* Neither a pinned host key nor a filed passphrase is lost by the way, but
\* for the crossings each part names (trust_host_key, adopt_legacy_configs).
KeysChangeOnPurpose == PinsAreReplacedOnPurpose /\ PassphrasesSurviveTheUpgrade

=============================================================================
