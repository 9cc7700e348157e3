# Formal model of dek

dek is a chat product: a TypeScript web client (`apps/web`), a PostgreSQL
database that holds all rules as SQL functions (`supabase/migrations`), a few
edge functions (`supabase/functions`) and native shells.  This directory holds
TLA+ models of the parts whose correctness depends on order, concurrency and
failure, TLC configurations that check them on small instances, and theorems
about them that TLAPS proves for every instance.

Contents

1. The system: parts, state, interactions, what is hard
2. The modules and how they correspond to the code
3. The runs, their bounds and what they show
4. What is proved
5. Disagreements between the code and its documentation
6. What is not modelled
7. Plan

## 1. The system

| Part | State | Operations | Talks to | Hard because | Correct when |
|---|---|---|---|---|---|
| **Outbox** (`sync/outbox.ts`, `outbox-storage.ts`) | unsent messages in memory and in IndexedDB/localStorage, one request in flight per channel, backoff timers | enqueue, retry, discard, settle, kick, load, dropChannels, stop | storage shared with other tabs, `api.send_message`, session (kick, drop), timeline (settle) | several tabs, awaits between steps, killed pages, lost and late answers, revoked access | what was stored is sent once, in order, or is shown as failed; what was deleted stays deleted |
| **Message server** (`0210_messages.sql`, `0001_foundation.sql`, `0900_integration.sql`) | messages, reactions, sequence counters, attachments, rate buckets | send, edit, delete, toggle reaction, list, sync | outbox, timeline, uploads, realtime, notifications | concurrent transactions at READ COMMITTED, replays, aborts, lock order | numbers are gapless in commit order, a replay is answered, counters and maps agree with the rows |
| **Channel timeline** (`sync/channels.ts`, `reducers.ts`, `messages.ts`) | per channel: messages held, cursor, gap mark, load state | open, load older/around, apply an event, heal a gap, optimistic edits | message server, hub, outbox | events lost, doubled and reordered against loads | after healing the view is a prefix-closed copy of the log; an older version never replaces a newer one |
| **Read state** (`sync/read.ts`, `0220_read_state.sql`) | last read number, unread and mention counts, pending mark | mark read, mark unread, debounced flush | message server, hub | a request is out while the person changes the mark | what was read arrives, is not shown unread again, and all devices come to agree |
| **Realtime hub** (`realtime/*`) | leader tab, wanted topics, one channel per topic with its phase and retry, resets | want/unwant, elect, subscribe, relay, reset, heal | Web Locks, BroadcastChannel, Supabase Realtime | leader dies, wants expire, reconnects | every wanted topic is joined or about to be; what a tab missed it is told to heal |
| **Session** (`sync/session.ts`, `runtime.ts`, `auth.ts`) | user, epoch, timers, abort controllers | sign in, sign out, begin/stop session | all of the above | requests out at sign-out | nothing of one person survives for the next; a start that failed goes on; what a sign-out promises to delete is deleted, and nothing unsent is lost otherwise |
| **Org data and revocation** (`sync/org.ts`, `access.ts`, `events.ts`, `0002`) | bootstrap snapshot, membership | bootstrap, apply org events, revoke | hub, outbox, timeline | snapshot races events | what access allows is what is held |
| **Threads** (`sync/threads.ts`, `0920`) | thread pages, follow flags | open, load, follow | message server | same races as the timeline | counts agree with the server |
| **Push notifications** (`0310`, `0926`, `push-dispatch`) | intents, claims, deliveries, devices | enqueue, claim, deliver, record | message server, FCM/APNs/Web Push | worker crash between send and record, claim expiry | each intent ends in time, leaves nobody out and tells nobody twice |
| **Uploads** (`features/media`, `0400`, `media-finalize`, `media-sign`) | upload rows, parts, signed links | begin, transfer, finalize, attach, expire | storage service, message server | retries, expiry against attach | the files of a message are there; what is refused or unused is purged; every file settles |
| **Calls** (`features/calls/engine.ts`, `0410`, `0914`) | calls and participants with versions; per device the call it is in, what it knows of it, timers | start, answer, join, decline, leave, heartbeat, rejoin, reap | hub (events), the links | a person acts while a request is out; late, doubled or lost events and answers; two devices of one person | nobody who hung up stays joined; an ended call stays ended; a device that is out of the call learns it |
| **Call media links** (`calls/link.ts`, `calls/mesh.ts`) | per remote session: the negotiation, repeats, restarts, grace timers; the roster, held signals | offer, answer, restart, rebuild, drop, hold, bye | hub (broadcast), the browser's peer connection | glare, lost and late signals, each end rebuilds on its own | both ends see what the other shares; sessions in a call come to be connected |
| **SFU and TURN** (`calls/sfu.ts`, `sfu`, `turn`) | tracks published and pulled | publish, pull, restart | an external service | retries against a remote session | - |
| **Sign-in codes** (`0902`, `0903`, `0910`, `auth-code`) | codes, attempts | request, verify | mail hook | concurrent attempts | a code works once, attempts are bounded |
| **Orgs, servers, channels, invites, moderation** (`0100`-`0120`, `0915`-`0917`, `0927`-`0930`) | members, roles, invites, bans | create, join, leave, change role, delete | everything that checks access | concurrent joins and role changes | limits and last-owner rules hold |
| Inbox, search, pins, saved | rows | queries and single-row toggles | - | - | - |
| Account deletion (`0320`, `account-delete`) | deletion requests | request, purge | auth service | two systems, retry | an account is deleted in both or can be retried |
| Service worker, native shells, UI, tools | platform glue, rendering, operator scripts | - | - | - | - |

The path of a message ties the first parts together: the composer calls
`Outbox.enqueue`; the outbox stores the record, then calls
`api.send_message`; the transaction takes the next number of its channel and
commits; the database broadcasts `msg.new` (best effort); every client's timeline
merges it and the sender's outbox settles its record.  Correctness of the whole
rests on two contracts: the server is an append-only log with idempotent sends
(`ChannelLog`), and clients can detect and repair what they missed by number.

## 2. The modules

### ChannelLog

The abstract promise of the server: `log[ch]` grows only at its end, and a send
(one `client_id`) is in one channel at one place.  It has one action, `Post`.
`MessageServer` implements it (checked and proved), so `Outbox` takes it as the server it
sends to: there a request that is accepted is a `Post` or, for a repeated send, nothing.

### MessageServer

The write transactions of the database.  A *call* is one RPC, which is one
transaction.  PostgreSQL at READ COMMITTED lets a statement read what is
committed when it starts and makes it wait for a locked row, key or counter; so one
action is what a transaction does between two waits.  A guard `Free(c, k)`
is the wait, `Take` the lock, `work[c]` the rows written so far, which only
`Commit` publishes.  `End` releases the locks; `Fail` is `dek.err` and rolls
everything back; `Abort` is a statement timeout or a lost connection at any point.

| In the model | In the code |
|---|---|
| `BeginSend/Edit/Delete/React` | the RPC is called; `now()` is fixed at the start |
| `RateHit` | `dek.rate_hit`: the upsert locks the bucket, the count includes only committed hits; deletion has no rate limit |
| `SendLook` | `pg_advisory_xact_lock` on the client_id, the look-up of an earlier copy (same channel: answered; another one: `conflict`), the look at the root of a reply |
| `SendLockRoot` | `select ... for update` of the root and the second look |
| `SendLockFile`, `SendFilesTaken` | attachments locked in id order, then all free or `invalid_input` |
| `SendInsert` | `allocate_seq` (locks `channel_state`), the insert, the reply counter of the root, the claims |
| `Follow` | the inserts into `thread_follows`, one row at a time: of a reply its author, the root's author and who is mentioned (`0210`); of an edit who it newly mentions (`0921`) |
| `ChangeRead` | `msg_get` and the decisions on this unlocked look |
| `ChangeRow` | the row `for update` and the second look; edit, deletion or the rebuilt reactions map |
| `DeleteCount` | `soft_delete_message` of a reply: one less on its root, not below 0 |
| `rows`, `lastSeq`, `reactors`, `claimed`, `follows` | `dek.messages`, `channel_state.last_seq`, `dek.reactions`, `attachments.message_id`, `dek.thread_follows` |

A message is identified with its client_id (unique per author), a body is a
number, there is one emoji (the rows of different emoji of `dek.reactions` do not
interact except through the map, which is rebuilt as a whole), a rate bucket is
derived from the calls that committed.  `edit_message` is the one of `0921`, which replaces that of `0210`.

A row of `thread_follows` that somebody else is making is waited for, `on conflict` or not, and the row
stays locked to the end of the transaction; so `Follow` comes after the counter of the conversation, in any
order of the people (the code takes them in the order of their first mention, which is any).  `Mentions`
bounds who is mentioned.  Left out: access rules, among them whether the root's author can still read (they follow
in any case here); the archive check; broadcasts; the rows of `mentions`, which belong to the message
of the transaction, so that nobody waits for them; that who leaves is taken out of
`thread_follows` (`0002`); and what a send updates in `channel_members`, its author's read position and the
`hidden` mark of direct conversations.

### Outbox

One person's tabs over one shared storage.  JavaScript runs a handler to its first
await without interruption, so one action is one such run; synchronous helpers
(`forget`, `unstore`, `persist`, `pump`) are operators from a page's state to a page's
state and are applied inside the action.  `page[t]` is a tab's memory with the
fields of the class (`recs`, `flight`, `timer`, `discardAfterFlight`,
`settledInFlight`, `accessDropped`, `droppedChannels`, `lastCreatedAt`), its
queued storage operations (`writing`, the promise chain per record, and `issued`, the order
in which IndexedDB runs one page's transactions) and the load under way (`load`,
`rows`, `touched`, `kicked`, `todo`).  `disk` is the storage, `log` the server,
`late` the requests a client gave up on that may still arrive, `access` the
person's access.  `kept`, `withdrawn` and `refused` are history
variables for the properties.

| In the model | In the code |
|---|---|
| `Enqueue`, `Retry`, `Discard`, `Settle`, `Kick`, `DropChannel` | the methods of the same name |
| `DiskWrite` | one queued save or removal lands; a write of `enqueue` or `retry` pumps |
| `LoadRead`, `LoadRow`, `AdoptRow` | `loadOnce` and `adoptOrphans`, split at their awaits |
| `Accept`, `Refuse`, `LateArrival` | `api.send_message` on the server |
| `AnswerOk`, `AnswerRefused`, `AnswerLost` | `attempt` after its await: success, final error, retryable error |
| `Wake` | the backoff timer |
| `Open`, `Close` | a page load; a tab closed, reloaded or killed (memory and queued writes are gone) |
| `Revoke`, `Regrant` | access changes on the server; the tab learns of it by `DropChannel` |

`retrying` means that the backoff still runs; afterwards a record is `pending` (the
code distinguishes the two only in a label).  In one state of the code a record is
retrying with its time over; the model does the step from there at `Wake`.

### Timeline

One client, one channel, and the server behind them.  A message is its number; `log[s]` is its
committed row with the version, `updated_at` and whether it is deleted.  A request lives in
`view.reqs` from the question to the answer: `Serve` is the moment the server takes its
snapshot (the queries are `stable` functions: one snapshot each), `Receive` the moment the
client goes on after its await.  What a request belongs to, the generation `loadGen`, is kept
as the field `live`: an opening or a reload makes what is out dead.

| In the model | In the code |
|---|---|
| `view.tl` | the `Timeline` of the store: `shown` is `ids`, `last` is `lastSeq`, `synced` is `syncedAt`; "none" is no timeline |
| `view.held`, `view.known` | `messages` of the store; the channel's `last_seq` |
| `view.gap`, `view.save` | the gap timer with its number; the timer of the cached page |
| `ListMessages`, `ListMessagesAround`, `SyncChannel` | the three queries of `0210_messages.sql` |
| `OpenChannel`, `CloseChannel`, `LoadOlder`, `LoadNewer` | the functions of the same name up to their first await |
| `PaintFromCache`, `LoadNewest`, `LoadAround`, `TakeOlder`, `TakeNewer`, `ApplySync` | what they do with the answer |
| `DropCache`, `StartOver` | `doHeal` when the answer was cut |
| `NewMessage`, `UpdatedMessage` | `applyNewMessage` with `noteGap`, `applyUpdatedMessage` |
| `GapTimer`, `Reconnect`, `WriteCache` | the timer of `noteGap`, `healOpenChannels`, `writeCache` |
| `Post`, `BeginChange`, `CommitChange` | transactions of the server; `now()` is taken at the start, the row written at the end |
| `Lose`, `GoAway`, `Restart`, `Fail` | a broadcast lost, the socket lost, the page killed, a request failed |

`MessageServer` checks and proves what this module takes from the server: numbers appear in order
and without gaps.  `Margin` is the 30 seconds of `CHANGED_MARGIN_MS`; `InTime` is the
assumption that the comment over `sync_channel` states (a transaction is shorter than the margin),
and, unless "late" is among what may happen, an event is on its way for less than that too.
`May` names what the person, the writers and the network do in a run besides opening and posting.

Abstracted: how ids are ordered (a set of numbers), the message context that a link asks
for first, the refresh of the sidebar (it may raise `known`), optimistic copies, thread panes,
counters, tombstones of roots that have replies, generations of the organisation.

### Hub

The tabs of one browser.  `queue` is the Web Lock's queue and its head the leader; `inbox[t]` the
BroadcastChannel to a tab; `link[x]` the phase of the leader's channel of topic `x` (the module's header
lists the phases).  The generation numbers of the code are replaced by what they do: an action that raises
one takes the topic out of the phase whose late callback the number would refuse.

| In the model | In the code |
|---|---|
| `Start`, `Stop`, `Kill`, `BecomeLeader` | `start`, `stop`, a killed tab, `becomeLeader` |
| `SetTopics`, `Announce`, `Expire`, `Reconcile` | `setTopics`/`joinView`/`leaveView`, the announcing timer, `desired`'s time to live, `reconcile` with `dropTopic` |
| `Subscribed`, `Broken`, `RetryTimer`, `Rejoin`, `Removed` | `onSubscribe` with its two kinds of answer, `retry`, `rejoin`, the end of `removeChannel` |
| `ForceReconnect`, `ResetDone`, `CooledDown`, `DeferredReset`, `Wake`, `GoOffline`, `GoOnline` | `forceReconnect` around its await, its cooldown and the reset put off, `onVisible`, `onOffline`, `onOnline` |
| `Emit`, `OnBus`, `FireReconnected` | `onWire`, `onBus`, `queueHeal` |

### Session, ReadState

`Session` is one tab around `authQueue`: events of auth-js are handled one after the other, a start is a
coroutine (a record that says for which generation it runs and where it awaits), an end another one.
`disk`, `painted`, `hubWho`, `outboxes` and `sub` say whose data is where; the properties compare them.
`Races` names what happens only in the runs of section 5.

| In the model | In the code |
|---|---|
| `SignedIn`, `Refreshed`, `SignedOut` | events of auth-js, of this tab or another one |
| `OnAuth` (`Resumes`, `Switches`, `Begins`, `Ends`, `PaintsStored`, `ShowsSignIn`, `NothingNew`), `AuthGoesOn`, `BeginSession`, `StartData`, `Me`, `Bootstrapped`, `ReadMeta`, `Painted`, `AfterOffline` | the handlers between their awaits |
| `RetryTimer`, `ResumeStart`, `SplashTimer` | `scheduleRetry`, `resumeStart`, the timers of `listenToAuth` |
| `SignOut`, `SignOutGoesOn`, `EndSession`, `EndGoesOn` | `signOut`, `endSession`/`doEnd`, cut at their awaits; a sign-out that finds unsent messages after it drained may end there, refused |
| `Ensure` | `ensurePushOnLogin` |

`ReadState` is one channel on several devices of one person: `want`, `inflight`, `timer` are the maps of
`ReadTracker`, `position` the server's row.  `Mark`, `Flush`, `MarkUnread` and `Hear` are the methods around
their await, `Serve` a call of `api.mark_read`, `api.mark_unread` or bootstrap, `ApplyRead` the reducer.

### Calls, Links

`Calls` is one conversation's calls: `calls` the rows (every RPC locks its call, so it is one step),
`events` the snapshots that were broadcast and may come in any order or never, `copy` the store's, `eng` the
engine of each device, `rpcs` requests and answers on their way.  `excused` holds people who are left joined
because a request or an answer was lost, which only the reaper can mend.

| In the model | In the code |
|---|---|
| `StartCall`, `AnswerCall`, `JoinRoom`, `DeclineCall`, `LeaveCall`, `Reap` with `Settled`, `Publish` | the functions of `0410_calls.sql`, `0914_sfu.sql` |
| `Start`, `Answer`, `Decline`, `HangUp`, `Hide` | what a person does, up to the first await |
| `Hear` with `After`, `AfterStart`, `AfterLeave`, `Enter` | what follows the await |
| `Deliver`, `ApplyCall`, `Older` | an event or a copy arrives; `isOlder` |
| `Beat`, `Rejoin`, `RingTimer`, `Dismiss`, `Cool` | timers |

`Links` is the media path of two sessions: `link[s]` is the `PeerLink` of a side (`offer` is out while the
connection is in have-local-offer; `agreed` holds the last offer and answer it finished with; `fire` is a
negotiationneeded not handled yet; `chain` are held signals), `listed`, `dropping`, `held` the mesh.  The
browser's connection is external: it wants a negotiation when what it agreed on is not what it shares or its
credentials are new, refuses a description that lacks sections it has, and connects two ends whose
descriptions are of each other.  A description carries who shares what (`face`), which connection made it
(`g`) and its credentials (`cred`).

| In the model | In the code |
|---|---|
| `Negotiate`, `WaitOver`, `RetryOffer` | `negotiate`, `waitingFirstOffer`, `armOfferRetry` |
| `SignalArrives` with `TakeOffer`, `TakeAnswer`, `ReleaseHeld` | `CallMesh.handle`, `PeerLink.handle`, the signals that `connect` releases |
| `SetRoster`, `DropGrace`, `AutoRebuild`, `CloseMesh`, `HasLeft` | `setRoster` and its grace, `rebuild` after `onGiveUp`, `close`, the end of `leave` |
| `PcConnected`, `PcDisconnected`, `GraceEnds`, `PcFailed` with `Restarted` | `onPcState`, `restartOrGiveUp`, `restart` |
| `Screen`, `Silent`, `JoinAgain`, `Lose` | `shareScreen`/`stopScreen`, a session the server stops listing, `rejoin`, a broadcast nobody hears |

What takes seconds (a repeat, a grace period, a wait) comes after what takes milliseconds (signals, browser
events, the roster): `Slowly`.  A story with "late" drops that assumption; section 5 says what happens then.

### Push, Uploads

`Push` is one notification intent: `intent` its row, `row` the deliveries, `run` the runs of `push-dispatch`.
`Claim` is `svc_claim_intent` (the lock of two minutes is `locked`, `LockEnds` its end), `Send` one device,
`Record` is `record`, `SweepEnds`/`SweepCalls` the minute's cron job, `Vanish` a run, a call or a record that is
lost, `Unwant`, `Hush`, `Register`, `Unregister`, `GrowOld` what changes meanwhile.  A route has a limit: of the
devices that it looks for (`Routed`) a claim takes the first `RouteLimit` (`Taken`; the code's 5000, in the order of
people and devices), and those it did not take are remembered in the history variable `cut`.

`Uploads` is a composer's upload machine with the server behind it: `job[f]` a job and its run with its stage,
`status`/`age`/`purged` a reservation, `stored` the bytes.  A request that nobody waits for any more stays in
`reqs` and may be served at any time.

| In the model | In the code |
|---|---|
| `AddFile`, `RetryFile`, `RemoveFile`, `ResetUploads`, `SendFiles` | `Uploader.add`, `retry`, `remove`, `reset`; the composer's `send` |
| `Prepared`, `WakeRun`, `Hear`, `Settle` | `run` between its awaits, `schedule`, `start` |
| `BeginUpload`, `AbortUpload`, `PutObject`, `LookAtUpload`, `AcceptUpload`, `RemoveBytes`, `RejectUpload`, `ClaimFiles` | the RPCs, Storage's rule, the steps of `media-finalize`, the claim in `send_message` |
| `TickPicks`, `TickWrites`, `PurgeHands`, `PurgeRemoves`, `PurgeStamps`, `PurgeDies` | the nightly tick and the purge |

### Members

One organization with one team server and one invitation to it.  A call is one RPC and one transaction, as in
`MessageServer`: what it reads before it waits may be stale when it goes on.  `rpc[c]` holds what a call was asked, how
far it is, the owners it saw, its locks and what it will write; `Finish` publishes that and reads nothing but the
row of the invitation, which is its own.  Each statement that looks at a table is an action, since it has a snapshot of its own.  Roles are those of the
organization (owner, admin, member, guest) and of the server (admin, member).

| In the model | In the code |
|---|---|
| `SetOrgRole`, `ManageMember`, `LeaveOrg`, `DeleteAccount`, `AcceptInvite`, `RevokeInvite`, `DecideRequest`, `JoinServer`, `LeaveServer`, `AdministerServer` | an RPC is called: `set_org_role`; `suspend_org_member`, `remove_org_member`; `leave_org`; `request_account_deletion`; `accept_invite`; `revoke_invite`; `decide_join_request`; `join_server`; `leave_server`; `add_server_members`, `set_server_role`, `remove_server_member` |
| `SeeOwners`, `LockOwners`, `LockTarget`, `AssertNotLastOwner` | `org_lock_owners` (what the statement sees, what it locks), `org_target`, `org_assert_not_last_owner` |
| `Strip`, `Part`, `Withdraw` | the loop over the servers in `revoke_org_membership` and `set_org_role`; the membership's row goes; `org_withdraw_requests` |
| `AcceptLook`, `JoinLook`, `AskToJoin` | `accept_invite`, `join_server`; the insert of a request |
| `GrantOrg`, `GrantRole` | `org_apply_grant`: the insert into the organization; the role it looks at after that |
| `GrantTeam`, `GrantSeat`, `Settle` | `org_grant_server_membership`: the look at the role, the insert into the server, the update of a pending request |
| `LockServer`, `MendServer`, `JudgeRequest`, `RevokeLook` | `lock_server_action105` and what follows it; `decide_join_request`; `revoke_invite` |
| `Finish`, `CallAborts` | the writes and the commit; an error, a timeout, a deadlock's victim |
| `MindsOwners`, `Crowns`, `crowned` | the calls that begin with `org_lock_owners`; history: a promotion committed between such a call's look and its end |

### MC modules

`MCOutbox`, `MCMessageServer`, `MCTimeline`, `MCHub` and `MCCalls` add model values, the constants' small sets
and the symmetry sets.  `MCClient` (Session, ReadState, Links), `MCServices` (Push, Uploads) and `MCDatabase`
(MessageServer, Members) check modules
that share no state side by side: a behaviour is of one part only, `which`, and the other parts rest in one
initial state.  The state space is the sum of the parts', not their product.  `MCDatabase` follows two calls of any kind on members, or
three of those that a request goes through; `MCServices` a dispatch with two devices and everything people may do meanwhile, or with
three, more than a route takes.  Each `.cfg` is one run.

### Definitions called slips

Next to some definitions stands a variant that a comment calls a slip (for
example `SendLook_Unlocked`, or `TrackOnly` before `Screen`).  No specification uses it.  Each is a plausible
mistake in that piece of code, and replacing the definition by its slip makes
the property that guards against it fail; this is how we know that each
property can fail at all.

## 3. The runs

Deadlock is not checked: all of these systems may come to rest.  That no state is a *wrong* resting state is
what `NoLostWakeup`, `NoTopicForgotten`, `StartGoesOn`, `NoWaitCycle` and the liveness
properties say.

| Run | Instance | Shows |
|---|---|---|
| `outbox_one_tab` | 1 tab that stays, 2 messages, 1 channel, deletes, access lost and given back, 1 kick, 1 fault | `SendOrder`: messages of a tab are posted in the order they were typed; `RevokedStaysHidden`: a late success does not bring back what a lost access hid |
| `outbox_tabs` | 3 page loads, 2 open at once, any may close, 1 message, 1 kick, 2 faults | `Durable`, `NoLostWakeup`; `OwnerSends`: while the tab that wrote a message is open no other one sends it, unless it failed and a person tries it again elsewhere |
| `outbox_reload` | a tab closed and reopened, 2 messages, 2 faults, fairness | `Delivery`: what was stored is posted or refused; `Cleanup`: its row goes |
| `server_threads` | 4 calls (send, delete), 3 messages, one of them replied to, one channel, 1 abort | `Gapless`: the committed numbers are 1 to last_seq; `RepliesCounted`: the counter under a root is exact while replies and deletions race |
| `server_sends` | 3 sends of 2 client_ids, one of which may be a reply to the other, 2 channels, any subset of 2 files each, 1 call per window of 2 ticks | `ReplayIsAnswered`, `FilesClaimedOnce`; `NoWaitCycle`: each circle of waits goes through an edit that brings people into a thread, so sends alone close none; `LogSpec` (refinement of ChannelLog) |
| `database` | messages: 3 calls of any kind on one message, 2 people, 1 abort; members: 2 people, 2 calls of any kind that overlap, or 3 that join, accept, decide and remove, an invitation of one use, any state of roles and requests before them | `ReactionsShown`: the map shown equals the table; `DeletedIsFinal`; `OwnerStays`: an organization keeps an active owner as long as nobody is made an owner between another call's look at the owners and its end; `ApprovedIsIn`: whom an administrator approves is in; `ClosedInvite`: a revoked or used-up invitation is not used again |
| `timeline_cursor` | 2 messages and 2 more (one a reply), page 2, sync limit 1, a link, pages both ways, 2 openings, 1 fault of any kind | `CursorHonest`: every message from the start of the timeline to the cursor is shown |
| `timeline_repair` | 3 messages, changed and deleted, an event lost or an absence, sync limit 1, fairness | `HolesFill`, `SyncedHonest` |
| `hub` | 2 tabs, 1 topic, 3 moves of people, 1 fault, 1 event, fairness | `NoTopicForgotten`: a topic the leader has for someone is joined or something under way will join it; `MissedIsHealed`: what a tab did not hear it is told to heal |
| `client` | session: 2 people, 3 auth events, 1 failed start; read position: 2 devices, 2 messages, 3 asks, 1 failure; links: 2 sessions, four stories (a screen shared and not, with a lost signal; a dropped path, a lost signal, leaving; a silent session), 2 repeats, 1 restart; fairness | `NothingSurvives`, `PushIsTheirs`, `StartGoesOn`, `WipedAsPromised`; `UnconfirmedKept`, `DevicesAgree`, `ReadArrives`; `SameView`, `LinksComeTogether` |
| `calls` | a direct call or a room, 2 people or 1 with 2 devices, 2 calls, 3 moves, of which 1 loss and 1 reaping, fairness | `NobodyLeftBehind`, `LearnsItIsOut` |
| `services` | push: 2 devices, or 3 with a limit of 2 on a route, 2 runs, 2 attempts, 1 loss; uploads: 2 files, one of them refused, 2 reservations, 1 place, 2 troubles; fairness | `NobodyMissed`: an intent that is done left out nobody whom its last claim did not cut off; `OnceOnly`, `EndsInTime`; `FilesAreThere`, `NothingLeftStored`, `EveryFileSettles` |

Why these bounds are enough:

* *Server.*  The races of this code are between two transactions, seen by a third; the fourth call lets the
  root be created in the same run.  `server_sends` has no abort, for the followers take its place in the bounds; `server_threads`
  and `database` have one.  Symmetry is over calls and over messages nobody replies to; no
  liveness property is checked under it.  The clock ticks when a call starts, so its bound is the calls.
* *Members.*  Two people are two owners, or one who decides and one who asks.  A behaviour is two calls, which may overlap at
  every wait, from any roles and requests that earlier calls can have left.  A decision can also be
  undermined by a third call that commits between two looks of another one; so the calls that a request goes through are followed three at a time.
* *Outbox.*  Two messages are enough for order and for "one in flight per channel"; the clock has one value so
  that every tie happens.  `MaxKicks`, `MaxFaults`, `MaxOpen` stand in the guards.
* *Timeline.*  Two openings make a load and one that replaces it; four messages are a page, the cursor, a message
  in the gap and one past it; a sync limit of 1 lets an answer be cut; the margin is 2 ticks, so that a change
  inside it and one outside it both happen.  `timeline_repair` holds for one fault and `timeline_cursor` for two
  new messages: more leads to disagreements of section 5.  "early" is left out for the same reason.
* *Hub.*  Two tabs are a leader and its successor; one topic is enough because topics share only the resets, the
  network and the wave, each of which can happen at any phase of the one.  Three moves open both tabs and kill one.
* *Session.*  Two people are the one who left and the one who came; three events let a second session begin and end.
* *ReadState.*  One failure makes a retry meet a newer mark; three asks are a mark here, one there and an unmark.
* *Links.*  Two sessions are all a link knows.  One lost signal is repeated (two repeats), and a story has two or
  three troubles, so that a second one meets the repair of the first.  One restart makes giving up and being built
  anew happen after two failures.
* *Calls.*  Two calls let the answer of one arrive in the other; the bound on moves is shared with losses and the reaper.
* *Push, Uploads.*  Two runs are the one that lost its lock and the one that has it; two attempts are the one
  that failed and the last.  Three devices and a limit of two make a claim that cuts off and, after a failure, one that need not.  Two files and one place make one wait for the other.

Fairness is weak and only of what goes on by itself; nothing is assumed of people, faults, late requests, or of
events that may be lost.

* *Outbox* (`Running`): pages are opened again, queued writes land, loads go on, timers fire, requests are processed
  and answered.  An event loop, a timeout on every request (SEND_TIMEOUT) and a backoff timer per channel justify it.
  One condition over the disjunction is enough because the bounds leave finitely many steps of each kind.
* *Timeline* (`Running`): requests are served and answered, events arrive, timers fire, the socket is joined again, open
  transactions end.
* *Hub*: the lock is granted, timers fire, the bus delivers, the socket answers, the network comes back.
* *ReadState*: the window's and the retry's timers fire, requests are served, answers arrive.
* *Links*: one condition per side over its timers, the browser's callbacks, arriving signals and the roster.  A path
  that nobody breaks connects; the user's stories and the losses are not fair.
* *Calls*: the heartbeat's timer fires; a look at the call and a rejoin are answered or fail.
* *Push*: cron runs every minute, a run answers or ends, a lock expires.
* *Uploads*: preparing ends, delays pass, requests are answered or fail.

In `MCClient` and `MCServices` a part that is not followed has nothing of this enabled (for the links, `which` says
so), so the fairness of one part does not exclude behaviours of another.  The properties of the form "again and
again" are so because a view may at any time be behind by what is on its way.

## 4. What is proved

The proofs are modules of their own, which extend the module, or the two, they are about.  All of them are about the specification
that TLC runs, with every constant arbitrary up to its `ASSUME`.

`MessageServer_proofs` proves, for any number of calls, messages, channels,
people and files and any limits that satisfy `MessageServerAssumption`:

* `TypeCorrect`: `Spec => []TypeOK`;
* `GaplessAlways`: `Spec => []Gapless`;
* `Refinement`: `Spec => LogSpec`, the transactions implement ChannelLog;
* `Invariance`: `Spec => []Inv`, the inductive invariant under all three.

`Gapless` alone is not inductive: that the number about to be committed is the next one
depends on nobody else having taken it.  `Inv` adds what a transaction may rely on
while it holds its locks: locks are exclusive (`Exclusive`); a send past its
look holds its client_id and has no row yet (`SendOK`); a send that is ready to commit
holds its channel's counter, and its number is last_seq + 1 (`Numbered`); a row that
is about to be overwritten is there and the new version keeps channel,
number and root (`Writes`, `ChangeOK`).  The proof has two halves.  Every step but `Commit`
changes the state of one call only, so `QuietStep` reduces it to that call's part
of the invariant (`EndStep`, `GotoStep`, `WriteStep` specialise it to ending,
taking a lock, and writing).  `CommitStep` shows that what others rely on survives a
commit, because the key that would be needed to disturb it is theirs.  `CommitPlaces`
then says what a commit does to the log, from which `GaplessCommit` and `CommitLogs` follow;
uniqueness of numbers is what makes the CHOOSE of `LogOf` the message itself.

The second half of the module goes on from `Inv` to what is in the rows:

* `ReplayAnswered`: `ReplayIsAnswered`, and each send that is answered well, the first copy or a later one, has its row in
  the conversation it was for;
* `ReactionsAlwaysShown`, `FilesAlwaysClaimedOnce`, `RepliesAlwaysCounted`: the invariants of the same subject;
* `DeletionIsFinal`: `Spec => DeletedIsFinal`, an action property;
* `RowsInvariance`: `Spec => []RowsInv`.

`RowsInv` is `Inv` with `Shape` (a reply's root is a first message, a deleted row is empty, what is not written has no reactions
and claims no file, finitely many rows) and, for each call, `Own`: what it overwrites it has locked; a reply past its second look
holds a root that is a first message and not deleted; and what it is about to commit is computed from the row as it is *now*
(`SendWork`, `ChangeWork`).  The last is what a stale read would break, and what the locks give.  `RepliesCounted` is an equation between a
counter and the size of a set, so its proof asks for each of the four kinds of commit which replies enter or leave that set.

It also proves `NeverADeadlock`, `Spec => []NoWaitCycle`, from `LocksInv` (`LocksInvariance`), which says what a
call can hold at each stage (`Stage`).  The property is about the calls that are not edits about to bring people into a
thread (`BringsIn`): no set of them waits only for each other, so each circle of waits has such an edit in it, and section 5 has one that
does.  A call that waits for a key is ranked by where it stands in the order client_id, row,
root, files by their id, counter, and in a set of calls that wait only for each other one has the highest rank: it has nobody to wait for.
That there is one needs the set to be finite (`Started`) and, for the files, the greatest number of a finite set (`Greatest`).
A reply that makes its followers' rows is past the counter: it holds its root, so of the calls in question that still wait only itself can
hold rows of that thread's followers (`NobodyAtCommit`).

`Members_proofs` proves, for any number of people, calls and uses of an invitation (`MembersAssumption`):

* `MembersTypes`: `MembersSpec => []MembersTypeOK`;
* `AnOwnerStays`: `MembersSpec => []OwnerStays`;
* `ApprovedPeopleAreIn`, `InviteStaysClosed`: the action properties `ApprovedIsIn` and `ClosedInvite`.  The first is about
  `decide_join_request` only; the requests that `join_server` and others settle on the way are in section 5;
* `MembersInvariance`: `MembersSpec => []MembersInv`.

None of them is inductive: each is about two calls that decided on what the other changes.  `MembersInv` says for each call
under way (`Holding`) where it can be (`Route`), that it holds the row of who it manages or brings in and what it read there is so
(`HasTarget`), that it holds every owner's row and, once it has passed the check, that an owner remains without its target (`HasOwners`),
that it holds the request it approves (`HasRequest`) and the invitation it uses (`HasInvite`); and that no two calls hold one row
(`OneHolder`).  The proof goes call by call: a step of one call that publishes nothing keeps `Holding` of the others, and a `Finish` keeps it
because whatever it would disturb is locked by the other call.  Two of the model's defects came out of this proof: `OwnerStays` as it
was first stated does not hold (section 5), and some `CASE`s had arms that overlap, which leaves open what they mean.

`Outbox_proofs` proves, for any number of tabs and messages (`OutboxAssumption`):

* `OutboxInvariance`: `Spec => []OutboxInv`;
* `StoredBeforeSent`: `Spec => []SentWasStored`, a message is on its way or in the log only after its first write landed;
* `DurableAlways`: `Spec => []Durable` for a server that never grants access again (`~MayRegrant`);
* `StoredUnlessRegranted`: `Spec => []StoredTillDone`, what `Durable` becomes without that assumption;
* `AlwaysAWakeup`: `Spec => []NoLostWakeup`;
* `RevokedNeverShown`: `Spec => RevokedStaysHidden`, an action property, if there is one tab or nobody deletes what waits to be sent.

`Durable` is about the storage, and what endangers it is a removal that some tab has queued and runs later, after other tabs
have read the record.  So `OutboxInv` says of every tab (`PageOK`) that a removal is queued only for a message that was *given* up
for good (in the log, withdrawn, refused, or dropped with its channel), that what is in memory has been stored or its first write is the next
to land, that a load under way holds only rows of what was stored (`Loading`), and that a
pending record has a timer, a flight or a storage operation that will pump (`Awake`).  The facts the tabs share only
grow (`Grows`): that is why a step of one tab takes nothing from another (`PageStays`), and each
action is proved for the one page it changes (`Turn`).  `pump` starts several sends at once, so its lemmas go
by the set it starts.  `~MayRegrant` is needed: `droppedChannels` is never emptied, and section 5 says what
a tab does after access returns.  `RevokedNeverShown` rests on `HidesInv`: of a channel that a tab dropped, each withdrawn send that it has in memory or on the wire is
marked as one whose answer is not to be shown (`Marked`; `discardAfterFlight`, and on the wire also `accessDropped`).  Its hypothesis
is needed: section 5 has what happens when one tab deletes the message that another one is sending.

`OutboxOrder_proofs` proves the order of sends, for any number of tabs that follow each other, with every fault, close, delete and loss of access:

* `SentInOrder`: `Spec => []SendOrder`, if one page is open at a time (`MaxOpen <= 1`; section 5 says how two break it).

A log in order is not inductive: which send goes next is decided by what one page has in memory, and that came from storage, where a page before it
may have left some.  `OrderInv` takes each message that was typed before a given one in the same page and channel, and says where it can be when that one is
in memory, in flight, late or in the log (`InLine`, `Behind`, `Placed`): in memory too, or excused, which is to be done (posted, refused or withdrawn) or
never stored and lost with its page (`Excused`).  A load brings the oldest first, so nothing is adopted ahead of what it follows (`Expected`, `BeforeIt`); a write
that is queued removes only what is done (`Que`); and what was ever stored is on disk or done (`OnDisk`), which is why a page that closes leaves to
the next one all that is owed.

`Services_proofs` proves of `Push`, for any number of devices, runs, attempts and losses (`PushAssumption`):

* `PushInvariance`: `Spec => []Inv`, if no run outlives its lock and no record is written twice (`May = {}`);
* `NobodyMissedAlways`: `Spec => []NobodyMissed`, whatever the limit of a route is: of whom the last claim cut off
  it says nothing (section 5);
* `OnceOnlyAlways`: `Spec => OnceOnly`, an action property.

`NobodyMissed` speaks of an intent that is done, and a record decides that by what is in its results.  So `Inv` says
where the knowledge of an outcome is: at most one run works on an intent, and only while it is lent to it (`Lent`);
what a run has to do covers the devices that are still owed something (`Owed`, `Listed`); a device that was revoked
was told so by an outcome that is final (`RevokedIsExpired`).  The assumption `May = {}` is needed: section 5 says
what happens otherwise.

`Services_proofs` proves of `Uploads`, for any number of files and reservations, any set of files whose bytes are refused, and any bound on
what goes wrong (`UploadsAssumption`):

* `UploadInvariance`: `UploadSpec => []UploadInv`;
* `FilesAlwaysThere`: `UploadSpec => []FilesAreThere`;
* `NothingEverLeftStored`: `UploadSpec => []NothingLeftStored`.

What endangers a sent file is a step that began before it was ready: an abort, a refusal that removes bytes, a tick that picked the row
or a purge that holds it in a batch.  `UploadInv` says why each comes to nothing.  A request that is waited for is what the run of its
file awaits, of the reservation the job has now (`ClientOK`), so an answer is never taken for another file's or an older one's; a
reservation is held by one file, jobs and requests together, and a ready one by none that is refused (`Holders`), so `RemoveBytes`
never meets a ready row; what the tick picked is old already, and what a batch holds is over for good (`NightOK`), so no write
comes after its bytes are removed.  The lemmas go by what a step does to the machine (`SettleKeeps`, `HearKeeps`,
`DropKeeps`) and to the rows (`RequestSafe`, `NightSafe`); every action is an instance.

`Client_proofs` proves of `Session`, for any number of people, events and failed starts (`SessionAssumption`: nobody is no person):

* `SessionGoesOn`: `SessionSpec => []StartGoesOn`, whatever races;
* `NoForeignPushes`: `SessionSpec => []PushIsTheirs`, without the race "event";
* `NothingSurvivesThem`: `SessionSpec => []NothingSurvives`, without "event" and "paint";
* `EveryLeaveIsTaken`: `SessionSpec => WipedAsPromised`, an action property, without "event" and "endings".

No assumption is there for the proof's sake: with a race that a theorem excludes TLC finds its property violated (section 5), the others stay in.  The invariant grows in four parts.
`Inv`: a coroutine of the current generation is the runtime's, and there is one whenever a start is owed and no retry is planned.  `OneInv`: no
runtime while an end is under way (`Alone`), and the events that wait lead to the person whom auth-js stores (`Follows`).  A device is registered for
that person, who may be a session or two ahead of the tab; `Passing` says why it is well in the end: the session that will be, or the first event
that makes one, is that person's, or a later event takes it away.  This is what an interleaving of registrations with sign-outs in another tab would break, and why
the queue of events is part of the invariant.  `PaintInv`: who paints is current.  `DiskInv`: a running session has its data here, and
somebody who signs out is already wiped, still running, or named by the end that will wipe.

`Client_proofs` proves of `ReadState`, for any number of devices, messages, asks and failures (`ReadAssumption`), where what the server says
reaches a device in the order it was said (`InOrder`):

* `ReadInvariance`: `ReadSpec => []ReadInv`;
* `UnconfirmedAlwaysKept`: `ReadSpec => []UnconfirmedKept`;
* `DevicesComeToAgree`: `ReadSpec => []DevicesAgree`, if in addition a request to mark unread does not fail.

`ReadInv` relates what a device was asked for to what it is still going to be told.  Every `mark_read` on its way, or failed and on its way back,
is for a position the device keeps as a floor (`want`, `inflight`) or one that is settled: shown, taken by the server, and below everything
still to be heard (`Kept`, `Forward`).  What is in flight has a request or an answer under way (`Answered`), so `inflight` never hides a
`want` for ever.  And the last position a device is told is the server's, unless it has something to say itself (`Agreed`).  Both
hypotheses are needed, and are in the code's way at run time: section 5 has a counterexample for each.

`Timeline_proofs` proves, for any numbers of messages and any bounds (`TimelineAssumption`) under `CursorHypothesis`:

* `CursorInvariance`: `Spec => []CursorInv`;
* `CursorAlwaysHonest`: `Spec => []CursorHonest`;
* `SyncedAlwaysHonest`: `Spec => []SyncedHonest`, under `SyncHypothesis`: `CursorHypothesis`, and nobody pages and no two changes of a message overlap.

Besides a first message and a page of two or more, `CursorHypothesis` has three parts, and each is needed: TLC has a counterexample without it.  The list does not page while its page
loads (no "early"; section 5).  Where a channel is opened more than once, no load fails and no window is paged down
(section 5).  And events are not late (no "late"), and the margin is at most half a page plus one and at most a cached page: a message whose event
is still to come is then so near the end that the page that was taken before it cannot begin above it.  The code has 30 seconds against
50 messages, which is not that, but an assumption about how fast people write.  The run `timeline_cursor` allows "fail" and
"newer" with two openings: their counterexamples are beyond its bounds.

A cursor becomes dishonest by an answer that was asked for when the timeline was another one.  So `CursorInv` says of every request what its answer
may rely on (`ReqOK`): a page is out alone and replaces a timeline that has no cursor yet; an older page is asked for below a message that is still
shown; what a heal left behind when it asked is whole up to the cursor there is now (`HealOK`), so `applySync` may move it;
a `loadNewer` is out once, from the cursor, of a window that no event changes (`NewerOK`).  `WholeTo` is `CursorHonest` with one addition, which makes
it inductive: it counts from the first message shown *or still to be told of* (`Coming`), since an event that arrives late is
inserted where it belongs, and may make the timeline begin earlier.  The same holds of pages under way (`PageOK`) and of the cached page
(`CacheOK`).  What the answers of the server bring is proved from the definition of a page as the first or last so many of a set
(`PageBelow`, `SyncWhole`).

A missed change is a matter of time, so `SyncInv` dates things.  Transactions and events are younger than the margin, and every copy, held, cached or on
its way, is the row or an earlier one of it (`Past`); so a row can only change to one that is younger than the margin before now (`Later`), and
what was `Fresh` at a time stays so.  An answer is a snapshot as fresh as its *question* (`Snapshot`), which is why the code may take
`syncedAt` from the time it asked.  A heal goes on from `syncedAt` and reaches down to the first message shown when it was asked
(`HealFresh`): what it does not bring has not changed since, and was fresh before; what was shown below that later came by an event, so it is young.
The exclusions are needed: section 5 has the counterexamples for "newer", for "fail" with two openings, and for "overlap".  Without the one of
"late", TLC violates `SyncedHonest` with `Start = 1`, `MaxSeq = 4`, `Page = Margin = 2`, `MaxClock = 8`, `MaxFaults = 0`, "change": the event of a post that
comes after a change of it shows the first copy of a message that no page held.  And "older" (`Start = MaxSeq = 3`, `MaxClock = 7`, "away", "change") violates it by
an older page that was asked for before an absence and comes after the heal, with rows as old as its question.  In the code a request ends
after 15 seconds (`api/client.ts`), well within the margin of 30, but no request of the model has an end, so paging is left to later work.
The run `timeline_repair` is an instance of the hypotheses.

`Hub_proofs` proves, for any finite set of tabs and any topics (`HubAssumption`):

* `HubInvariance`: `Spec => []HubInv`, the types, `OneLeader`, `LeaderHasChannels` and `NoTopicForgotten`;
* `NoTopicEverForgotten`: `Spec => []NoTopicForgotten`;
* `AtMostOneLeader`: `Spec => [](OneLeader /\ LeaderHasChannels)`;
* `EveryFollowerWaits`: every tab that runs leads or stands once in the lock's queue, so without a leader the next is enabled;
* `MissedAlwaysOwed`: `Spec => []MissedIsOwed`, the safety half of `MissedIsHealed`.

A topic is taken from phase to phase by callbacks that come late, so `NoTopicForgotten` is about every action at once: a phase that waits
for something is left, or what it waits for is still under way.  `MissedIsOwed` says of each event a listening tab has not got that it is
coming (`Coming`): it or a reconnect is on the bus to this tab, the heal's timer runs, the topic owes a heal once it is joined, the network or
a reset put off will break it, or the leader is new and does not know yet that the tab wants the topic (`Telling`), or there is none.  The invariant
needs `Listening` beside it, the same about every topic a tab listens on, since the next event can be missed at any time.  The
difficult case is a change of leader: the new one knows its own topics only, and owes heals for what it is told while its wave lasts, so the
proof follows a tab's wish from the word about the new leader to the leader's inbox.  That is why the model says when
the wave may end (`WaveEnds`): a tab that answers later than `WAVE_MS` gets no heal.

Only model-checked, of the safety properties: `SameView` of `Links` and `NobodyLeftBehind` of `Calls`; each needs an invariant about everything under way between the parties,
which section 7 plans.  Out of the prover's reach and left to TLC: liveness (`Delivery`, `Cleanup`,
`HolesFill`, `MissedIsHealed`, `ReadArrives`, `LinksComeTogether`, `LearnsItIsOut`, `EndsInTime`, `EveryFileSettles`).

## 5. Disagreements between the code and its documentation

The models have behaviours that a comment or a test of the repository says cannot be.  They are not kept as runs,
since they would be most of them; each is found by TLC with the property alone and the constants given (others
as in the named configuration, without symmetry).  A property that is named only here is stated in its module for
this section: the code does not keep it.

`Outbox` (start from `MCOutbox_one.cfg`; the constants not named are `MaxKicks = 0`, `MaxFaults = 0`, the other `May...` FALSE):

* `DeletedStaysDeleted`, one message, `MayDiscard = TRUE`: a message deleted while a load has its snapshot comes back and is sent.
* `SendOrder`, `TwoTabs`, `MaxOpen = 2`, `MayClose`, two messages: `loadOnce` asks for each row whether its owner is
  open, with an await in between.  If the owner closes in between, a later row is adopted and sent
  while an earlier one is left to the dead owner: the per-channel order of the header is broken.
* `RevokedStaysHidden`, `TwoTabs`, `MaxOpen = 2`, `MayDiscard`, `MayRevoke` and `MayRegrant`: a second tab loads the row of a message that the first
  has on the wire, and deletes it; the first then loses the channel, gets it back, and shows the message as accepted.
* `OneSender`, `ThreeTabs`, `MaxOpen = 3`, `MaxKicks = 2`, `MayClose`: adoption reads the lock list and then writes without a
  condition, so two tabs can adopt and send the same record.  The server's idempotency hides it.
* `Durable`, `TwoTabs`, `MaxOpen = 2`, `MayRevoke` and `MayRegrant`: `droppedChannels` is never emptied; a load of
  a tab that once dropped a channel removes what another tab queued for it afterwards.

`MessageServer` (start from `MCMessageServer_threads.cfg`):

* `NeverStuck`, `Kind = {"send", "edit"}`, `User = {u1, u2, u3}`, `Body = {2}`, `Mentions = {{}, {u2, u3}}`, `MaxAborts = 0`: an edit of one reply and
  another reply to the same root mention the same two people; each makes the `thread_follows` row of one of them first and waits for the other (`0921:310`,
  `0210:141`).  The database breaks such a deadlock after a second or so, and one of the two calls fails and may be repeated.  The comment at
  `0210:78` is about this kind of stall: the reply holds the counter of its conversation meanwhile.

`Timeline` (start from `MCTimeline_cursor.cfg` for `CursorHonest`, from `MCTimeline_repair.cfg` for the rest):

* `CatchUp`, `FairSpec`, `Start = 1`, `MaxSeq = Page = SyncMax = 2`, `CacheSize = 1`, `MaxClock = 3`, `MaxOpens = 2`,
  `MaxFaults = 1`, "away": re-opening a channel while its heal is out drops the heal's answer and waits for just
  that heal, so what was missed is not asked for again.
* `VersionsForward`, `Start = MaxSeq = MaxOpens = 1`, `Page = SyncMax = 2`, `MaxClock = 4`, `MaxFaults = 0`, "change", "overlap":
  `updated_at` is the start of the transaction, so of two overlapping changes the one written last can carry the older
  time, and lose to, or be replaced by, the other.
* `SyncedHonest`, `Start = MaxSeq = 1`, `Page = SyncMax = 2`, "change", "away", "overlap": the same; the event of the change
  that was written first but began last replaces the copy of the row, since it carries the later time.
* `HolesFill`, `Start = 0`, `MaxSeq = 2`, "lose": a heal is refused while the cursor is 0, so a hole in front
  of the second message of an empty channel stays until the channel is reloaded.
* `HolesFill`, `MaxSeq = Page = SyncMax = 4`, "lose": the gap timer remembers one number; a later gap is not noted and not healed.
* `HolesFill`, `Page = SyncMax = 3`, `MaxFaults = 2`, "lose", "away": a heal that is asked for gets the one that is
  running; its answer may be older than the gap, and nobody looks again after `applySync` as
  `healIfBehind` does after a page.
* `ChangesArrive`, `MaxSeq = 1`, "change": a change whose event arrives before the page with the
  older copy is dropped (`applyUpdatedMessage` returns null for a message nobody holds).
* `SyncedHonest`, `Start = MaxSeq = SyncMax = 2`, `Target = {1}`, "change", "away", "newer": a window that reaches the newest page
  by `loadNewer` is marked as synced now, though no changes were asked for; a change missed earlier is never asked for.
* `SyncedHonest`, `MaxSeq = 1`, `MaxOpens = MaxFaults = 2`, "change", "restart", "fail": a page from the cache whose load failed is
  healed with the changes of the last 30 seconds, and counts as good from then on.
* `CursorHonest`, `Page = 1`, `SyncMax = 2`, `MaxClock = 6`, no target and no reply, "older", "early", "restart": `loadOlder` runs
  while the newest page is loading; its answer, asked for from the cached page, is merged into the page that replaced it,
  with a hole between them.
* `CursorHonest`, `MaxSeq = MaxClock = 5`, no reply, "newer": the dead answer of a `loadNewer` from before an opening puts out the
  spinner of the one after it, so the same page is asked for twice; the second answer moves the
  cursor back and marks the end as not reached, while live messages past a gap are already shown, and the
  next `loadNewer` starts after the last of them.
* `CursorHonest`, `Start = SyncMax = 1`, `MaxSeq = 5`, `Reply = {1}`, `MaxClock = 6`, `MaxOpens = 3`, `MaxFaults = 2`, "fail", "away" only:
  after a failed load the status is 'error', in which a reconnect heals although the page of a new opening is on
  its way; the page lands first, then the older heal's answer is merged below it and leaves a hole.
* An event that arrives later than a whole page is inserted below that page's first message, which
  `applyUpdatedMessage` guards against and `applyNewMessage` does not (no run: no new message is that late in the model).

`Members` (start from `MCDatabase.cfg`):

* `OwnerRemains`, `MaxCalls = 3`: `request_account_deletion` locks the owners of the organizations its caller owned when it began.  Who
  is promoted after that look deletes the account without a lock, while the other owner, who still sees an
  owner in them, is let go.  More generally (5 calls and more; `0100_org_core.sql:200`) a call keeps, after its wait, only the rows it
  saw that still are an owner's; whoever was made an owner meanwhile is not among them, and two such calls can let the last two
  owners go.  The attempt to prove `OwnerStays` found this, not a run.
* `SettledIsIn` (three calls of the kind "requests"): `org_grant_server_membership` looks at the role, inserts, and settles a pending request in three statements (`0100:400`, `:403`, `:410`,
  now `0930:125`).  `join_server` is past its look; `accept_invite` leaves a request that is not committed yet; `remove_org_member`
  deletes the membership, withdraws nothing that it can see, and commits; `accept_invite` commits; `join_server` inserts and approves
  the request of somebody who is out.
* `OutsidersDoNotAsk`: `join_server` asks in a statement of its own; a removal in between withdraws what is pending, not what comes after it.
* `SuspendedStays`: `leave_org` does not look at the status again after its waits.
* `TeamIsInside`: a removal, or a demotion to guest, strips the server memberships it finds; one that is granted at the same time stays.
* `BannedIsOut`: an acceptance reads the bans before the one that is about to commit, and waits for nothing of it.

`Hub`:

* `NeverTheLeavingChannel`, `QuickLeaves = FALSE`: a comment says that a fresh join never races its own leave; a reset waits
  for removals only so long, then connects, and may be handed the channel that is still leaving.

`Session`:

* `NothingSurvives`, `Races = {"paint"}`: `startOffline` checks the generation after its first await only, so a session that
  ends while the copy is painted leaves the hub of nobody running.
* `NothingSurvives`, `PushIsTheirs` and `WipedAsPromised`, `Races = {"event"}`, `MaxNews = 4`: an event that auth-js raised before a session's end is handled after it.
* `WipedAsPromised`, `Races = {"endings"}`: a sign-out that joins an end already under way gets that end's mode, and what it promises to
  delete stays.
* Not in the model: auth-js keeps its stored session when `logout` cannot reach the server.

`ReadState`:

* `DevicesAgree`, `InOrder = FALSE`: answers, events and copies carry no version, so the last to arrive wins, not the last said
  (`0220_read_state.sql:5` promises that tabs and phones reconcile).
* `UnconfirmedKept`, `InOrder = FALSE` with `MaxSeq = 3` and three asks: a `mark_read` that failed is put back and asked again with a newer one,
  and an answer of bootstrap from before is heard after the confirmation: it moves the position back, and the floor is gone.
* `ForgottenStays`: marking unread forgets what was asked, but a `mark_read` that fails afterwards puts it back (`read.ts:85` against `:101`).
* A `mark_unread` that fails leaves what was read before unsent: `forget` ran first.

`Links` (start from `MCClient.cfg`; `StoriesHere` with one more story):

* `LinksComeTogether`, `Story({"share", "drop"}, 3)` or `Story({"silent", "share"}, 3)`: once a screen was shared, a side that alone
  builds its link anew offers fewer sections than the other's connection has; the offers are refused, the repeats run out,
  the impolite one of the two ignores everything from then on, and its connection never becomes 'failed'.
* `SameView`, `Story({"late", "share", "share again"}, 3)`: a late answer to a repeated offer is applied to a newer offer, for a
  description does not say which offer it answers.
* For the same reason the two ends may for a while disagree about which connections they belong to (a held offer
  answered to a link that a hello has just built anew); a restart mends that, so `SameView` compares what is shared.

`Calls`:

* `NobodyLeftBehind` has two causes that the model excuses: the answer of a rejoin that comes after the call was left is dropped
  without a leave (`engine.ts:1146`; `answer` and `joinRoom` do leave), and the end of a `leave` shows its ending over a call that was
  answered meanwhile (`engine.ts:504`), which later goes without a leave.
* Others it excuses: a second copy of one version while a rejoin is out makes the cooldown end the call here and leave the server's
  row; the lost answer of `answer_call` or `join_room` leaves the person joined until the reaper comes.
* By design, but surprising: `leave_call` is per person, so an old device's late leave takes the new session out; `startDirect` on a second
  device adopts the first one's session id (`engine.ts:389`); `enter` ignores a newer seen copy in which its session was replaced.

`Push` (start from `MCServices.cfg`):

* `NobodyCut`: a route returns 5000 devices at most (`0926:98`, `0310:194`, `:236`).  When all of them are told the record ends the
  intent (`0310:436`), and the devices past the limit are never told.
* `OnceOnly`, `May = {"repeat"}` or `{"outlive"}`: `record` writes again when its answer was lost; a run that took over in between has told
  the device, and its 'sent' is overwritten by the old 'failed' (`index.ts:90`).
* The sweeper marks an intent 'failed' whose last attempt is under way; a late record can bring an expired intent back to
  pending; a device that failed and is then in its quiet hours keeps 'failed' without a 'skipped' row (`0310:308`).

`Uploads`:

* `NoOrphans`: a file removed while its `begin_upload` is out gets a reservation that nobody aborts (`uploads.ts:303`).
* `media_purge_tick` reads which files nobody uses in a subquery and updates them by id; a row finalized or claimed in between is
  overwritten.  `FilesAreThere` speaks of files younger than that.

## 6. What is not modelled

* *Outbox*: storage that refuses everything (the code then sends without durability, by design); labels and timing shown to the
  person; rows written by versions that had no owner.
* *Server*: access rules, archiving, the rows of mentions and notifications, following by hand and the end of following (`thread_follows` only
  grows here), system messages, the cap on different emoji, broadcasts, list queries.
* *Timeline*: eviction from memory, threads, counters, optimistic copies, loss of access.
* *Hub*: the connection status that is shown, private topics refused for good.
* *Session*: choosing among organisations, the set-a-password screen, the import of a legacy outbox.
* *Read state*: unread counters, threads (they use the same class), a refusal for good.
* *Calls*: permissions and devices, full rooms; the media paths other than two linked sessions: the SFU and TURN, candidates and
  their bounds, tracks swapped without a negotiation, the bounds of held signals, three or more sessions (links are independent of
  each other but for the room's limit).
* *Push*: the routing rules, payloads, the senders; that the sweeper skips intents younger than 30 seconds; the answer 503 of `push-dispatch` while
  its VAPID keys are misconfigured (`index.ts:130`).  That comes before the claim, so it is a call that never arrives (`Vanish`), of which a run has
  `MaxLost`: while it lasts an intent stays pending, is called for again each minute, and expires with age.
* *Members*: channels and their members, moderators, bans and mutes of one server, reports, settings; more than one organization,
  server or invitation; an invitation by mail or that expires; the second step of an account's deletion, over the sign-in service.
* *Uploads*: thumbnails, progress, sniffing of types, the cap on reservations; a file finalized after its owner lost access
  leaves its row pending until the tick.
* The parts that section 7 plans; and the user interface, tools, search and platform glue, which have no protocol of their own.

## 7. Plan

Order of work so far: Outbox, MessageServer, Timeline, then Hub, Session, ReadState, Calls, Links, Push, Uploads, Members.  What is left,
in order of importance:

1. `Sfu`: tracks published and pulled against a service whose sessions end; composed with `Calls`.
2. `AuthCode`: issue, use once and counting of attempts under concurrency.
3. `Moderation`: reports, bans and mutes, and channels' members.
4. `Org`: the bootstrap snapshot against events and revocation; composed with `Outbox` and `Hub`.
5. Account deletion over two systems.

Theorems next: `NobodyLeftBehind` of `Calls`; `SameView` of `Links`; `SyncedHonest` with paging, once the requests of `Timeline` end in time.
