# A TLA+ model of PostGraph

PostGraph is an SMTP server that hands the mails it receives to Microsoft Graph. This directory
holds a formal model of it: TLA+ modules translated from the Rust sources, TLC configurations that
check them on small instances, and proofs, checked by TLAPS, that hold for every value of the
constants. `PROJECT.json` maps each definition to the source lines it stands for and lists the
runs, mutants, hazards and theorems.

## The system

| component | source | state | operations | modelled in |
|---|---|---|---|---|
| SMTP session | `lib/smtp/src/session.rs`, `handler.rs`, `response.rs`, `lib.rs` | `SessionState` (phase, login flag, mail), the connection | one per SMTP command, AUTH exchanges, message data, STARTTLS | `SmtpSession` |
| server loop | `lib/smtp/src/server.rs` | one task per connection | accept, run a session under a time limit, report its end | `Server` |
| Fail2Ban | `lib/mail_proxy/src/fail2ban.rs` | a table peer -> (connections, fails, last activity) | `push_connection`, `pop_connection`, `push_fail`, `get_verdict` | `Fail2Ban`, in `Server` |
| ProxyHandler | `lib/mail_proxy/src/proxy.rs` | per session: user name, `productive`, a Graph client; shared: Fail2Ban behind a mutex | `on_connect`, `on_disconnect`, `on_login`, `on_mail`, `on_reset` | `Server`, `ProxySession` |
| Graph client | `lib/ms_graph/src/client.rs`, `auth.rs` | the access token | `authenticate`, `send_mail` | `GraphClient`, in `ProxySession` |
| effective configuration | `config_file.rs`, `lib/smtp/src/config.rs`, `defaults.rs` | read-only | address, name, size limit, authentication mode | operators of `ConfigFile`; mode and acceptor in `ProxySession` |
| connection | `lib/smtp/src/connection.rs`, `Session::read_line` | plain or TLS stream, bytes read ahead | `fill_buf`, `consume`, `start_tls`, `read_line` | `Connection` |
| command parser | `lib/smtp/src/command.rs`, `lib.rs` | - | `Command::parse`, `normalize_address` | `CommandParser`; its outcome in `SmtpSession` |
| replies | `lib/smtp/src/response.rs`, `session.rs` | - | `Response::line`, EHLO, HELP | `Replies`; their codes in `SmtpSession` |
| PeerFilter | `peer_filter.rs` | a list of rules | `add`, `remove`, `evaluate` | `PeerFilter`; its outcome in `Server` |
| UserList | `user.rs` | users with password and allowed senders | add, remove, verify | `UserList`; its outcomes in `ProxySession` |
| configuration file, CLI | `config_file.rs`, `custom_serde.rs`, `app/postgraph/src/cli.rs`, `app.rs` | one file; a copy per process | load, edit, save | `ConfigFile` |
| Windows service | `service.rs`, `main.rs` | a runtime, a channel, what was reported | start, stop, report | `WindowsService` |
| TLS loading, build script, installers | `tls_config.rs`, `build.rs`, `scripts/` | - | - | not modelled: i/o, build time |

**How they interact.** `Server::listen` clones the handler for each connection and spawns a task:
`on_connect` (count the connection, ask Fail2Ban, then the peer filter), `Session::handle` under
a limit of five minutes, and in every case `on_disconnect`. The session calls the handler at HELO,
AUTH, the end of a message and RSET, and awaits it. Sessions share one thing only, the Fail2Ban
table behind a mutex. User name, token and mail belong to one session. The `config` commands are
other processes, which meet each other in the configuration file only; the server reads it once,
when it starts. On Windows the service manager's control handler talks to the runtime over a channel.

**What is hard about it.**
Tasks interleave on the table, while eviction by age removes records of any peer in anybody's
`get_verdict`. A session can be cut off at each of its awaits, with a request to Graph under way.
The login is kept in two variables of two crates, which RSET, STARTTLS and AUTH change at
different steps. The size limit, dot transparency and the counters have boundaries. TCP cuts the
client's bytes where it likes, also around STARTTLS. Two commands may hold copies of the file at
once, and a crash may hit between emptying and writing it. A stop of the service may come at any
time of its start or its end. Each hazard, with its line and the properties that would show it going wrong, is in `PROJECT.json`.

**What makes each component correct.**
The session: client and server never disagree about what the next line means, no mail without the
login the mode asks for, no credentials in the clear when TLS is required. The server and Fail2Ban:
counts are exact, no more sessions per peer than allowed, bans hold and end, no rejection without
a cause, every slot comes back. The relay: Graph gets what the client meant, once, from a sender
the user may use, and 250 means that Graph has it. The connection: the bytes of the lines are the
bytes sent, and none of plain text survives STARTTLS. Parser and replies: both sides find the same
commands, addresses, ends of replies and features. The configuration: no command undoes or mixes
another's change, and plain-text passwords are never switched on by accident. The service: a stop
is followed, and "Stopped" is true.

## The modules

| module | what it is | extends |
|---|---|---|
| `SmtpSession` | one session over an arbitrary handler | |
| `MCSmtpSession` | instance for TLC | `SmtpSession` |
| `SmtpSessionProofs` | its theorems | `SmtpSession`, TLAPS |
| `Fail2Ban` | the table's operations, as operators | |
| `Server` | accept loop, tasks, table and time | `Fail2Ban` |
| `ConnectionQuota` | abstract: what the server promises of connections | |
| `MCServer` | instances for TLC | `Server` |
| `ServerProofs` | its theorems, the refinement included | `Server`, TLAPS |
| `GraphClient` | token, `send_mail`, and the service | |
| `ProxySession` | session + handler + Graph client | `SmtpSession`, `GraphClient` |
| `MailRelay` | abstract: what a session promises of mails | |
| `MCProxySession` | instance for TLC | `ProxySession` |
| `ProxySessionProofs` | its theorems, the refinement included | `ProxySession`, `SmtpSessionProofs` |
| `PeerFilter` | the rule list and its evaluation | |
| `PeerFilterProofs` | its theorems | `PeerFilter`, TLAPS |
| `UserList` | the users, their edits and checks | |
| `SendRights` | abstract: who may log in and send as what | |
| `UserListProofs` | its theorems | `UserList`, TLAPS |
| `MCLists` | `UserList` and `PeerFilter` for TLC | `UserList`, `PeerFilter` |
| `Connection` | bytes to lines, plain and over TLS | |
| `ConnectionProofs` | its theorems | `Connection`, TLAPS |
| `CommandParser` | lines to commands, as operators | |
| `MCCommandParser` | words and lines for TLC | `CommandParser` |
| `Replies` | replies to lines, and a client that reads them | |
| `Dialog` | abstract: what SMTP promises a client that sends ahead | |
| `WireProofs` | the theorems of parser and replies | `CommandParser`, `Replies`, TLAPS |
| `MCWire` | `Connection`, `CommandParser` and `Replies` for TLC | `Connection`, `MCCommandParser`, `Replies` |
| `ConfigFile` | the file and the commands that edit it | |
| `ConfigStore` | abstract: what the file promises the operator | |
| `WindowsService` | `run_service`, from its registration to its last report | |
| `AppProofs` | the theorems of file and service, the refinement included | `ConfigFile`, `WindowsService`, TLAPS |
| `MCApp` | `ConfigFile` and `WindowsService` for TLC | `ConfigFile`, `WindowsService` |

### SmtpSession

A session is one async task. `pc` names the await it is suspended at: `"read"` is `read_line`,
`"reply"` is `reply` (with `out` holding the code and what the code does after it), `"on_mail"` and
its like are handler calls, `"auth_plain"`, `"auth_user"` and `"auth_pass"` are the reads inside
`handle_auth`, and `"start_tls"` is the handshake. An action is the code from one await to the
next, so `phase'`, `mail'` and `isAuthenticated'` change exactly where the code assigns them: MAIL
sets the phase before its reply, HELO, AUTH and the end of a mail after it. `Abort` can happen at
every await and stands for end of file, i/o errors, over-long lines, timeouts and the session
limit. Replies of several lines (EHLO, HELP) are one reply; texts are left out.

`client` is a history variable: what a client that waits for each reply can know. No guard of the
server reads it. The main property `InStep` compares it with the session's state. The client
leaves the phase "Data" on 250 and on 451, forgets everything on RSET and STARTTLS, and writes
lines with a leading dot the way RFC 5321 asks.

Message lines are records of a length and a number of leading dots, the two things the code looks
at. Addresses are model values.

### Fail2Ban, Server, ConnectionQuota

The table is a function on the peers on record. An `Instant` is kept as an age, which stops at
`MaxAge + 1` where the record is expired. `OnConnect` is the whole of `on_connect` and
`OnDisconnect` the whole of `on_disconnect`: both hold the mutex to their end. `Tick` lets time pass, but not past the
`MaxLife` of a session (`SESSION_MAX_DURATION`; the mutex is held for moments only).
`Builds` is the set of build profiles considered: with overflow checks `pop_connection` on a count
of zero panics, which kills the task after its fail was recorded, without them the count wraps.
`ListenerFails` and `Restart` are the end of the process on an error of `accept` and its restart
by systemd (`Restart=on-failure`).

`ConnectionQuota` knows only which connections are open and which of them are admitted, and bounds
them. `Server` implements it with the two sets read off `task`: that is not obvious, as the code
never looks at its tasks, only at counts that age and eviction may destroy.

### GraphClient, ProxySession, MailRelay

`call` is the progress of `send_mail`: waiting for the token, about to build the request, waiting
for the answer. A request goes to `inFlight`; the service takes or refuses it at any later time or
never, also when nobody waits for it any more. An answer may be lost at any time (`PostFails`).
`TokenExpires` can happen between any two steps, in particular between `authenticate` and
`get_authentication`.

`ProxySession` joins these with the session: its actions are those of `SmtpSession` where a
`...Returns(ok)` happens together with the code of the handler that decides `ok`. A session starts
without user name and token since the handler is cloned per connection. `EffectiveAuthMode` turns
a configuration into the mode, so users without TLS and without `allow_insecure_auth` mean no
authentication, as the CLI's warning says.

`MailRelay` says what comes out of it: mails submitted by the client as it meant them, copies
delivered at most once, only if permitted, and confirmations only of what was delivered. It does
not say that an error means "not delivered": the code cannot know, and answers 451.

### PeerFilter

The list changes by `AddRule` and `RemoveRule` as `config smtp peers` calls them; a duplicate is not added
again, `retain` removes every copy. A rule's subnet is kept as it was written, host bits included,
since rules are compared as values. `iter` sorts the list stably by `Ord` and evaluation takes the
first match, so `FirstMatch` is the matching position that precedes all others. `MostSpecificWins`
states what this comes to without an order: longest prefix, allow before deny, else deny.
`Server` uses the outcome for each peer as the constant `AllowedPeers`: the filter of a running
server does not change.

### UserList, SendRights

Names and addresses are pairs of a local part and a domain, whose words `Lower` folds; a name
without `@` has the domain `NoDomain`. Each command is a process of its own, so an action loads
the list (`Loads`, which folds names, and keeps one of several that are then equal), edits it and
saves it. `report` is the last command and whether it printed an error. An edit that fails (an
unknown user, a new one without an address and without `--force`) saves the list as it was.
`SendRights` knows folded names and patterns only, and says that a command that tells no error has
done its part for the one user it names, and nothing else, and that one that tells an error has
done nothing. `UserList` implements it step by step, so doing nothing passes only where it is what
was reported. A removal revokes what was granted as it is written there: one in another spelling
than the list's reports success and leaves the other entry, which `RemovalTakesEffect` finds.
`ChecksAgree` has the checks of a running server: a user finds its password and its permissions in
any spelling, of the name and of the sender, also when the file had the name in another one.

### Connection

The client sends bytes, `wire` holds what nobody read. `FillPlain` and `FillTls` are `fill_buf` of
the two streams, each of any number of bytes up to the capacity; `Take` is one round of
`read_line`'s loop, from `memchr` to `consume`; `StartTls` turns the `BufReader` into a
`PrefixedTcpStream` with what it has read ahead (`FromExisting`), from which `PollRead` reads
before it reads from the socket. TLS itself is external: it takes the three messages of a
handshake, one of them in two pieces, and then opens sealed bytes. A client may send its handshake, or commands in plain
text, together with STARTTLS: the history `taken`, with what is still on its way, must be what it
sent. `WF(ReadSteps)` is what the runtime does: a task whose socket has data is polled.

### CommandParser, Replies

A line is a sequence of words and blanks. `Parse` follows `Command::parse` with its helpers one by
one, and `ParsesAsWritten` compares it with a grammar that says which word stands where. The
client writes a line piece by piece, so each prefix is tried with each ending. `Replies` has one
step per line of a reply, with the delimiter that `Response::line` chooses, and a client that knows
nothing but the lines: it may be several commands ahead, and has to tell where replies end.
`Dialog` only counts: commands sent and read, replies given and seen, and the handshake, which
finds nothing on its way. `Replies` implements it with the reply to a command given when its last
line is, and seen when the client takes a line for the last: so lines and marks come to what
`SmtpSession` takes for granted, one reply to each command. The commands whose replies are all of
one line (AUTH, MAIL, RCPT, DATA, RSET) are left to `SmtpSession`; NOOP stands for them.
`HelloRejected` ends the session without a reply. A handshake may fail at any time; that it only
succeeds with a client that has read the reply to STARTTLS is an assumption on the client.

### ConfigFile, ConfigStore

A process is at one of the awaits between `Load` and `Write`; its copy of the file is `config[p]`.
Every command ends in `execute`'s clean-up (`Normalised`) and in `to_file`, also `show`. `Truncate`
and `Write` are the two halves of `fs::write`; between them the process may die (`Quit`), the
system crash or the disk be full (`WriteFails`), or another command load the empty file. What serde
writes has its durations in whole seconds (`Serialized`). A part of it mostly does not load. But the
keys come in the order of the structs, and the last of them is `client_secret`, so a text that is
cut inside its value loads with another secret (`CutShort`); and over what another process wrote
meanwhile, a part may load with the rest of that text (`Mixtures`). `overlapped` is history: the
processes that hold a copy which another one wrote under; `raced` tells whether one of these went
on to write.

`ConfigStore` is a store on which each command takes effect at one moment: it changes the fields it
is about, by the rule for the flag of insecure authentication, or, for a reset, leaves the defaults;
before that moment it can give up, and only after it a crash can lose the content or the end of the
secret. `ConfigFile` implements it, with the copy of a command as the content from the moment that
the file is emptied for it (`Stored`) and how far each command is (`Stage`), as long as no command
writes over another's change (`Racing`); and again from then on. The store lets a reset begin from
nothing, which the code cannot do: that is finding 5.

### WindowsService

The steps of `run_service` on one side, the control handler, accept errors and the sessions on the
other. `task` is the blocking receive of the stop channel: `queued`, `waiting`, `done` or
`cancelled`. The drop of the runtime is tokio's, modelled as documented there: it cancels what is
asynchronous and waits for blocking tasks that have begun. `Fails` is every `?` of `run_service`.

`MCWire`, `MCApp` and `MCLists` are sums: a behaviour is one of one of their parts, the others stay at their
start. They save the reader from a dozen instances; nothing is claimed of their parts together.

## What the runs check

| run | instance | shows |
|---|---|---|
| `smtp_session` | six configurations (mode x acceptor), two addresses, two recipients at most, lines of 2, 3 and 2 with a dot, limit 5 | type; `InStep`, `MailIsAuthorised`, `CredentialsOverTls`, `SizeLimit` |
| `server` | two peers with three and one connections, one of the peers filtered out; limits 1 and 1; a ban of 2 ticks, sessions of at most 2 | `ConnectionsExact`, `AdmissionLimit`, `FailsAccounted`, `BanEnforced`, `RejectedForCause`, `ImplementsQuota`, and `SlotReleased` |
| `server_short_ban` | two and one connections, ban 1 < session 2, both builds | what survives a lost count: `CountNeverHigh`, `FailsAccounted`; where overflow panics `SlotReleased` |
| `server_lost_count` | the same, release build | a violation: counts are lost |
| `server_ban` | as `server` | a violation: an old ban is revived |
| `proxy_session` | two users with one permitted address each, two mails of one line, all setups but TLS without users | `ProxyTypeOK`, `UserIsClients`, `ReportFits`, `ImplementsRelay`, and `MailAnswered` |
| `lists` | users: two people, one of them in two spellings; an address in two spellings, `*@example` and `*@`, `*@*` and more in the file; two passwords (symmetric). Rules: twelve, allow and deny for five subnets of two-bit addresses and one of another family; lists of up to `MaxRules` = 3 | `ChecksAgree`, `ImplementsRights`; `MostSpecificWins`, `ChangesAreLocal` |
| `user_list_removal` | the same | a violation: a removal in another spelling is reported and has no effect |
| `app` | one command with every option, or two at once with those of few values; three hand-written files, or none; a service with two sessions | `TypeOK`, `PlainAuthIsConfirmed`, `OnlyOverlapUndoes`, `IsAtomicStore`; `StoppedIsTrue`, `StopIsFollowed` |
| `config_reset` | the same | a violation: a reset makes no file and repairs none |
| `wire` | seven bytes in pieces of up to four, a line limit of two; lines of five words and more; four commands | `InOrderAndOnce`, `NoPlainTextInTls`, `LineLimitExact`, `ReadsOn`; `ParsesAsWritten`, `AddressIsBare`; `RepliesInStep`, `FeaturesTrue`, `ImplementsDialog` |
| `command_size` | lines of MAIL with a parameter | a violation: the SIZE parameter spoils the sender |

**Bounds.** The session runs let three lines exceed the limit of 5 in several ways (2+3 just fits,
3+3 does not) and let two mails follow each other, before and after RSET, STARTTLS and new logins;
nothing in the code depends on more. In `server` a peer can fail twice (over the limit of one
fail), be rejected for its connections and its fails, and expire (age 3 > 2) while another peer
acts; the connections are the only bound on the behaviours. `MaxU32` is 7, more than any count
except when it wraps. `proxy_session` has two mails, so a late acceptance of the first overlaps
the second, and a second login as another user is possible between them. It leaves RCPT out
(`MaxRecipients = 0`), which the handler ignores. In `lists` three rules are enough for a
match to be beaten by prefix, by action and by position; the theorems lift the bound. Its users need
none, as their lists are finite.
In `wire`, `MaxSent` = 7 lets a client send STARTTLS (one byte and its newline), the three parts of
the handshake and a line under TLS; the pieces of four and the line limit of two let a read end
before, in and after each of them, and a line be just as long as allowed or longer. `MaxTokens` = 5
bounds the length at which a line still goes on: every command is complete with its arguments and
something that does not belong there. `MaxCommands` = 4 is one handshake with an EHLO before and
after it. In `app` two commands at once have six of the nine kinds, those that touch what the
properties tell apart; more processes are the theorems' business. Deadlock is not checked where a closed session or a
server whose connections are used up rightly stops; it is in the other runs.

**Fairness.** Safety properties need none. `SlotReleased`, in both server runs, needs that a session
ends (`SESSION_MAX_DURATION` wraps it in `timeout`) and that `on_disconnect` gets the mutex (tokio's mutex is fair and nobody
keeps it). `MailAnswered` needs that `on_mail` runs once awaited and that each HTTP request is
answered or times out (`GRAPH_API_TIMEOUT` on the HTTP client). `ReadsOn` needs that a task is
polled when its socket has data, `StopIsFollowed` that the process runs. No fairness is assumed of
clients, of the Graph service or of operators, and none of the end of a session when the service stops.

**Mutants.** Each property of a passing run names an operator that changes a definition of the
model as a plausible bug would (marked *fault* in the modules); TLC finds the property violated.

## What is found

1. *Live counts can be evicted* (`server_lost_count`). `get_verdict` removes every record older
   than the ban, also of peers that hold connections. With a ban shorter than a session can last
   (five minutes; the default is longer) the count of live connections is lost and its last decrement
   underflows. With a longer ban the count is exact: that is theorem `CountsExact`.
2. *A ban that is over is revived* (`server_ban`). Connecting refreshes the record before its age
   is looked at, so a peer alone on the server is never forgiven by waiting.
3. *A removed sender stays allowed* (`user_list_removal`). `senders remove` compares the entry as
   written and returns no error where it is not on the list, the check of a sender compares in lower
   case. So where the list has `alice@example.com`, as it has for a new user of that name, removing
   `Alice@example.com` reports success and changes nothing.
4. *The SIZE parameter spoils the sender* (`command_size`). EHLO offers SIZE, but all that follows
   `MAIL FROM:` is the address: with `SIZE=1000` behind it, it matches no permission but `*@*`.
5. *A reset restores nothing that is lost* (`config_reset`). `config reset` first loads the file it is
   to replace (`app.rs:25`), so it cannot repair one that does not load, nor make a first one, for
   which the Windows installer runs it (`Install-PostGraphService.ps1:184`); nothing else does.

Read off the code while modelling, in the models as it is, and without a run of their own:

- `session.rs:51` says that `Phase::Connected` is also the phase after a mail; `session.rs:160`
  sets `Greeted`.
- Every `config` command writes the file, `show` included (`app.rs:36`, `cli.rs:95`). So a look at the
  configuration can undo a change that is made meanwhile: `OnlyOverlapUndoes` allows for it.
- A ban of less than a second is saved as 0 (`custom_serde.rs:13`), though `cli.rs:137` takes it;
  and a write that is cut inside `client_secret` leaves a file that loads (`config_file.rs:68`).
- With an empty server name the first line of EHLO's reply has no mark that more follow
  (`response.rs:157`): the properties of `Replies` except that name.
- When the proxy fails by itself the service stays "Running": the runtime's drop waits for the
  blocking receive (`service.rs:79`), which waits for a stop. `StopIsFollowed` starts from a stop.
- The lines of HELP's reply have two codes, 250 and 214.

## What is proved

Eight modules hold proofs; tlapm checks them all, for any constants that meet the assumptions named
in the modules (which only say what the constants are) and for the hypotheses named here.

**The session.** `SessionInv` is inductive. `InStep` alone is not: it speaks of the awaits where a
line is read, while between two of them a reply is on its way that one side has acted upon and the
other has not. `WillAgree` says that the two sides agree once the pending reply is taken into
account; `VerbOfWait` and `ReplyFits` say which command each await and each reply belongs to, so
that the client draws the right conclusion; `ModeObeyed` carries the authentication mode through
the phases and the challenges. One lemma per group of actions shows each part preserved;
`TypeCorrect`, `StaysInStep`, `MailAuthorised`, `CredentialsNeedTls` and `SizeIsLimited` follow.

**The server.** `ConnectionsExact` needs `Fresh`: the record of a live connection exists and is no
older than the connection, which is no older than `MaxLife`. The theorems assume `LongBan`, that
no session outlives the ban and that the counters are wide enough; the run `server_lost_count`
shows that the first half cannot be dropped. `CountsExact` and `AdmissionLimited` follow, and
`QuotaImplemented`: each step is one of `ConnectionQuota` or leaves its sets alone, the count
standing for the cardinality of the set. `TypeCorrect` needs no condition.
For the fails, `FailsInv` adds that there are no more fails on record than failed sessions
(`FailsAccounted`), that a peer with a session that failed within the last `MaxAge` has a record no
older than that (`Remembered`), which counts all of these (`RecentOnRecord`), and that no task panics. `FailsHaveCauses` and
`CountsNeverHigh` hold for any ban; `RejectionHasCause` and `BansEnforced` under `LongBan`.

**The relay.** Every step of `ProxySession` is a step of `SmtpSession` or leaves it alone, so
`SessionInv` comes for free. `ProxyInv` adds what the handler knows of the session: `LoginKnown` (a
session that is logged in, or will be once its reply is out, is logged in as `username`),
`MailMeant` (the mail in `on_mail` is the last the client completed and reaches the Graph client
only if permitted), `RequestsMeant` (what may still be taken is a copy of a permitted mail that was
not taken) and `SuccessIsTrue` (a 250 on its way is true). From these, `UserKnown`,
`ReportFitting`, and `RelayImplemented`, the refinement: `Submit` is the client's end of a message,
`Deliver` the service's, maybe after the session ended, and `Confirm` the reply.

**The peer filter.** `FirstMatchPrecedes`: if any rule matches, one precedes all other matches (by
well-foundedness of `<`, twice: the highest `Ord`, then the first position). From this,
`EvaluationIsLongestPrefix`. For `EditsAreLocal`, the verdict is written as a property of the set
of matching rules, which an edit of another subnet leaves as it is. The proofs use of `Contains`
only that it is a relation, so they hold for any notion of subnet.

**The users.** `TypeOK` says that all names are folded, so saving and loading is the identity
(`LoadKeeps`), and each command has the effect its lemma states. `ChecksCorrect` needs that
folding twice is folding once (`LowerAssumption`) and that `*`, the empty word and `NoDomain`
differ. `RightsImplemented` takes one lemma per command, which shows the effect together with what
is reported of it.

**The connection.** `ConnectionInv` says that of the six places a byte can be in (returned, line,
buffer, TLS, prefix, wire) each step moves bytes from one to the one before it; `NothingElsewhere`
empties the places that a layer does not have. With `Cat` as an associative operation, most steps
are an equation of concatenations (`...Moves`). `TlsKeepsPlainTextOut` needs more: that the client's
bytes after the last part of the handshake are sealed (`SealedLast`), and by `InOrderAndOnce` what
follows that part among the bytes used is then sealed as well (`SealedAhead`). Of the constants,
only the line limit is assumed to be a number (`LimitIsNumber`).

**The configuration.** `IInv` is about copies: that of a process nobody wrote under differs from
the last content only in its own part (`CopiesFresh`), and while one process writes all others that
hold a copy are marked (`WritersAlone`). So a write by an unmarked process changes one part
(`OverlapUndoes`). For `StoreImplemented`, the copy of an unmarked process that is about to empty
the file is what `ConfigStore` lets its command make of the content; from then on that process is
the only one whose copy counts, and what a crash leaves is a cut of it (`CutConfig`; `MixedConfig`
has the type of the rest).
`ConsentGiven` carries the confirmation of plain-text authentication through all of it.

**The service.** `StoppedTruly`: by the time of the last report the drop has waited, and it was the
end of the receive or of the proxy that led there.

**The parser.** The one invariant is that a line is a sequence of tokens; the rest is about the
operators, for lines of any length over any words (`TokensAssumption`: words are no blanks, and
`Upper` is a function on them). `SplitFacts` says what `split_none_or_once` comes to where it
matters: the part before the first blank is the word `name` exactly if the line begins with that
word, followed by a blank or nothing. `ByVerb` has the arms of `Command::parse`, and `PlainParsed`,
`HelloParsed`, `PathParsed` and `AuthParsed` compare each with the grammar (`LinesParse`).
`TrimDecoded` is why it does not matter that `Command::parse` decodes before it trims. For
`AddressesAreBare`, `BareAddress` follows the address through its four cuts: each leaves a piece of
it that has the address's one word, and nothing but blanks between the brackets and that word.

**The replies.** `RepliesInStep` says what the client sees next; what it sees later is on its way,
so `StepInv` chains the lines: each answers the command of the line before it, or the next one if
that line ended a reply (`Chained`), and the last is the one that the session sent last
(`EndsAtSession`). `ServingFits` says that what is left of a reply is marked as continued up to its
last line and has a text, which is where the server's name must not be empty. `ClientInStep`
follows. For `ClientKnowsFeatures` it must be known which line of its reply each line is, before
the client has counted it: `IsNth` reads that off the marks, and `FeaturesInPlace` says that the
nth line of an EHLO's reply has the nth text of the reply that the session would give now. That is
true since TLS only starts when the client has seen every line (`HandshakeAlone`), and a client that
waits for it has forgotten what it knew (`HandshakeForgets`). `DialogImplemented` is the refinement:
by `StepInv` the client ends a reply exactly with its last line and never before it is given, and
`WaitsAfterStarttls` adds that nothing was sent after a STARTTLS that the session has yet to read or
is still serving, so the handshake begins with nothing on its way.

Only model-checked is liveness (`SlotReleased`, `MailAnswered`, `ReadsOn`, `StopIsFollowed`), as
fairness and ENABLED are beyond the installed provers. Every invariant and every action property
of a passing run is a theorem too, and so are the five refinements. No module declares a RECURSIVE operator.

## What is not modelled

Reply texts, logging, the argument parser, certificate loading, DNS and HTTP details; the
recipients of the envelope beyond the session, since the code never hands them on; passwords and
hashing, whose outcome is a choice. Clients of `SmtpSession` wait for each reply, those of `Replies`
and `Connection` need not.

Of the file: where inside a key a write is cut, other than in the last one; a mixture of two texts
has each key from one or the other. Of two commands that overlap nothing is promised but
`OnlyOverlapUndoes`: that the later save undoes the earlier one is so, and the properties bound it
to commands that ran at the same time; consent is claimed until one has written over another, and
atomicity while none does. Of the service: that the process ends when
`run_service` has returned, and why the drop of a runtime waits, which is tokio's. Several sessions
with one Fail2Ban table are in `Server`, where a session's outcome is any; a composition with
`ProxySession` would only narrow that choice to what `ReportFits` says.

## Plan

Done: all of the system but i/o and build time, and the proofs above. What is left:

1. Pipelining clients in `SmtpSession`, whose history now assumes a client that waits.
2. A composition of several `ProxySession`s with `Server`, if the two come to share more than the
   Fail2Ban table.
