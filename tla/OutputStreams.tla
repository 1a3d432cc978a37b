----------------------------- MODULE OutputStreams -----------------------------
(***************************************************************************)
(* Everything Astra keeps a bounded part of in memory and serves piece by  *)
(* piece to somebody who was not there when it was written:                *)
(*   output   a command's stdout: hot buffer and blob, paged by the chat   *)
(*   content  a text put into a blob at once, paged by a tool              *)
(*   log      the execution history of a conversation, a line an entry     *)
(*   history  the commands of a terminal session, a line an entry          *)
(*   screen   a pseudo terminal followed over server-sent events           *)
(*   feed     the event table followed over server-sent events             *)
(* A behaviour is about one of them, the channel.  What is written is      *)
(* numbered 1, 2, 3...: the n-th item is the n-th character, byte or       *)
(* event, so that an offset tells which items an answer holds.             *)
(***************************************************************************)
EXTENDS Naturals, Sequences, FiniteSets, SequencesExt, FiniteSetsExt

CONSTANTS
    MaxItems, MaxLine, MaxBreaks,   \* bounds: items, items of a write, lost connections
    Hot,        \* hot_bytes of a terminal, max_output_chars of a command
    Limit,      \* rows the event table keeps
    Recent,     \* events the page loads before it follows
    Batch,      \* events of one query
    MaxPage     \* characters of one page

VARIABLES
    channel,
    kept,       \* the items that can still be read: from + 1 to to
    ends,       \* the last item of every line, entry or chunk
    store,      \* of the blob: on the "store", in "memory" after the store failed, "gone"
    source,     \* "running" until the terminal has ended, or the session of a command is closed
    hand,       \* bytes the terminal's reader has read and not yet absorbed
    client,     \* the reader: see TypeOK
    breaks      \* connections lost so far

vars == <<channel, kept, ends, store, source, hand, client, breaks>>

Blobs == {"output", "content", "log", "history"}
Channels == Blobs \cup {"screen", "feed"}
Items == 1..MaxItems

TypeOK ==
    /\ channel \in Channels
    /\ kept \in [from : 0..MaxItems, to : 0..MaxItems] /\ ends \subseteq Items
    /\ store \in {"store", "memory", "gone"} /\ source \in {"running", "ended"}
    /\ hand \in 0..MaxLine /\ breaks \in 0..MaxBreaks
    \* page: the length it asks for; at: next offset or id; got: items received (a terminal's: on this
    \* connection); base: items before the first that was asked for; asked: the
    \* id in the url, last: the id received last (both 0 without one); blind:
    \* where a connection without an id began; shown: the screen's highest item;
    \* told: (history) the items there were when the last page was read; short:
    \* that page was of the capture
    /\ client \in [pc : {"idle", "loaded", "off", "on", "polled", "done", "error", "exit"},
                   page : 1..MaxPage, at : 0..MaxItems, got : Seq(Items), base : 0..MaxItems,
                   asked : 0..MaxItems, last : 0..MaxItems, blind : 0..MaxItems,
                   shown : 0..MaxItems, told : 0..MaxItems, short : BOOLEAN]

Init ==
    /\ channel \in Channels
    /\ kept = [from |-> 0, to |-> 0] /\ ends = {} /\ store = "store"
    /\ source = "running" /\ hand = 0 /\ breaks = 0
    /\ \E page \in 1..MaxPage : client =
         [pc |-> IF channel = "feed" THEN "idle" ELSE IF channel = "screen" THEN "off" ELSE "on",
          page |-> IF channel \in Blobs THEN page ELSE 1, at |-> 0, got |-> << >>,
          base |-> 0, asked |-> 0, last |-> 0, blind |-> 0, shown |-> 0,
          told |-> 0, short |-> FALSE]

\* The items from lo + 1 to hi.
Run(lo, hi) == [k \in 1..(IF hi > lo THEN hi - lo ELSE 0) |-> lo + k]
Least(m, n) == IF m < n THEN m ELSE n
Most(m, n) == IF m > n THEN m ELSE n

-------------------------------------------------------------------------------
(* Writing.                                                                 *)

\* BlobStore.append: the first failure drops the store for good; from then on
\* the blob is the one in memory, which begins empty.
Appended(n) ==
    /\ kept.to + n <= MaxItems
    /\ \/ store = "store" /\ kept' = [kept EXCEPT !.to = @ + n] /\ UNCHANGED store
       \/ /\ store \in {"store", "gone"} /\ store' = "memory"
          /\ kept' = [from |-> kept.to, to |-> kept.to + n]
       \/ store = "memory" /\ kept' = [kept EXCEPT !.to = @ + n] /\ UNCHANGED store
    /\ UNCHANGED <<channel, source, hand, client, breaks>>

\* A reader thread appends a line of the command's output: to the hot buffer up
\* to its cap, and in full to the blob.
WriteOutput(n) == channel = "output" /\ Appended(n) /\ UNCHANGED ends
Preview == Least(Hot, kept.to)

\* put(): the text of a page in one call.
PutContent(n) == channel = "content" /\ kept.to = 0 /\ Appended(n) /\ UNCHANGED ends

\* An entry is one line: what it says, and the newline.
Entry(n) == n > 1 /\ Appended(n) /\ ends' = ends \cup {kept.to + n}
Record(n) == channel = "log" /\ Entry(n)
Remember(n) == channel = "history" /\ Entry(n)

\* The memory budget: blobs written later push this one out.
Evict ==
    /\ channel \in Blobs /\ store = "memory" /\ store' = "gone"
    /\ kept' = [kept EXCEPT !.from = kept.to]
    /\ UNCHANGED <<channel, ends, source, hand, client, breaks>>

\* The terminal's reader takes a chunk from the descriptor while it is open,
\* and absorbs it: whole chunks are dropped from the front, the newest never.
ReadTerminal(n) ==
    /\ channel = "screen" /\ source = "running" /\ hand = 0 /\ kept.to + n <= MaxItems
    /\ hand' = n
    /\ UNCHANGED <<channel, kept, ends, store, source, client, breaks>>
Absorb ==
    /\ hand > 0 /\ hand' = 0
    /\ LET to == kept.to + hand
           chunks == {b \in ends \cup {0, kept.to} : b >= kept.from /\ (to - b <= Hot \/ b = kept.to)}
       IN kept' = [from |-> Min(chunks), to |-> to] /\ ends' = ends \cup {to}
    /\ UNCHANGED <<channel, store, source, client, breaks>>

\* The reaper marks the terminal ended and closes the descriptor, whatever the
\* reader holds.
Ends ==
    /\ channel = "screen" /\ source = "running" /\ source' = "ended"
    /\ UNCHANGED <<channel, kept, ends, store, hand, client, breaks>>

\* EventBus.emit and its _prune, and the Clear button.
Emit ==
    /\ channel = "feed" /\ kept.to < MaxItems
    /\ kept' = [from |-> IF kept.to + 1 > Limit THEN Most(kept.from, kept.to + 1 - Limit) ELSE kept.from,
                to |-> kept.to + 1]
    /\ UNCHANGED <<channel, ends, store, source, hand, client, breaks>>
Clear ==
    /\ channel = "feed" /\ kept' = [kept EXCEPT !.from = kept.to]
    /\ UNCHANGED <<channel, ends, store, source, hand, client, breaks>>

\* A terminal session is closed: its records of commands go with it, their
\* reader threads go on.
CloseSession ==
    /\ channel = "output" /\ source = "running" /\ source' = "ended"
    /\ UNCHANGED <<channel, kept, ends, store, hand, client, breaks>>

-------------------------------------------------------------------------------
(* Pages: an offset into the text that can be read, and a length.           *)

\* Mutant: the last page is taken for the end one item early.
SliceEarly(offset, length, from, to) ==
    LET total == to - from
        next == IF offset >= total THEN offset ELSE Least(offset + length, total)
    IN [items |-> Run(from + offset, from + next), next |-> next, done |-> next + 1 >= total]
\* BlobStore.read: the items of a page, the next offset, whether that is all.
Slice(offset, length, from, to) ==
    LET total == to - from
        next == IF offset >= total THEN offset ELSE Least(offset + length, total)
    IN [items |-> Run(from + offset, from + next), next |-> next, done |-> next >= total]
Blob == Slice(client.at, client.page, kept.from, kept.to)

Takes(page, short) ==
    client' = [client EXCEPT !.got = @ \o page.items, !.at = page.next,
                             !.pc = IF page.done THEN "done" ELSE "on",
                             !.told = kept.to, !.short = short]
Fails == client' = [client EXCEPT !.pc = "error"]
Reading(c) == channel = c /\ client.pc = "on"
\* A blob of another age, or a store that does not answer now.
Unreadable == store \in {"store", "gone"}
OnlyReads == UNCHANGED <<channel, kept, ends, store, source, hand, breaks>>

\* What the session still holds of the command: a live process, or an entry of
\* its history.
Captured == IF source = "running" THEN Preview ELSE 0

\* The chat's page of a command's output: of the blob, or of the bounded capture
\* where the blob cannot be read.  Neither is a 404.
ReadOutput ==
    /\ Reading("output") /\ OnlyReads
    /\ \/ store # "gone" /\ Takes(Blob, FALSE)
       \/ Unreadable /\ Captured > 0 /\ Takes(Slice(client.at, client.page, 0, Captured), TRUE)
       \/ Unreadable /\ Captured = 0 /\ Fails

\* terminal_output_read and browser_content_read.
ReadContent ==
    /\ Reading("content") /\ OnlyReads
    /\ \/ store # "gone" /\ Takes(Blob, FALSE)
       \/ Unreadable /\ Fails

\* A page of lines stops after its last newline.  A page without one is a part
\* of a long line and is handed out as it is.  What stands before the first
\* newline of a page that begins inside a line is handed out too.
\* Mutant: such a page is handed out and the offset stays where it was.
LinesStall ==
    LET page == Blob
        whole == {i \in ends : i \in ToSet(page.items)}
    IN IF whole = {} THEN [page EXCEPT !.items = << >>, !.next = client.at, !.done = page.items = << >>]
       ELSE [items |-> Run(kept.from + client.at, Max(whole)),
             next |-> Max(whole) - kept.from, done |-> Max(whole) = kept.to]
\* Mutant: the offset moves past the line that was cut.
LinesCut ==
    LET page == Blob
        whole == {i \in ends : i \in ToSet(page.items)}
    IN IF whole = {} THEN page
       ELSE [page EXCEPT !.items = Run(kept.from + client.at, Max(whole))]
Lines ==
    LET page == Blob
        whole == {i \in ends : i \in ToSet(page.items)}
    IN IF whole = {} THEN page
       ELSE [items |-> Run(kept.from + client.at, Max(whole)),
             next |-> Max(whole) - kept.from, done |-> Max(whole) = kept.to]

\* execution_history_read, and terminal_history_read of a session.
ReadLog ==
    /\ Reading("log") /\ OnlyReads
    /\ \/ store # "gone" /\ Takes(Lines, FALSE)
       \/ Unreadable /\ Fails
ReadHistory ==
    /\ Reading("history") /\ OnlyReads
    /\ \/ store # "gone" /\ Takes(Lines, FALSE)
       \/ Unreadable /\ Fails

-------------------------------------------------------------------------------
(* The screen of a terminal: a connection asks for an offset and is sent     *)
(* what comes after it.                                                      *)

\* The frames name no next offset, so a tab always asks from where it began: 0.
OpenScreen ==
    /\ channel = "screen" /\ client.pc = "off" /\ OnlyReads
    /\ client' = [client EXCEPT !.pc = "on", !.at = client.asked, !.got = << >>,
                                !.shown = IF client.got = << >> THEN @ ELSE Most(@, Last(client.got))]

\* text_since: from the offset, or from the start of the buffer when the offset
\* is older; taken under the lock.
Since(offset) == Run(Most(offset, kept.from), kept.to)
Sent == LET items == Since(client.at)
        IN [client EXCEPT !.got = @ \o items, !.at = kept.to]

Poll ==
    /\ Reading("screen") /\ OnlyReads
    /\ client' = [Sent EXCEPT !.pc = "polled"]
\* When the terminal has ended: the tail, the exit event, the end.
Settle ==
    /\ channel = "screen" /\ client.pc = "polled" /\ OnlyReads
    /\ client' = IF source = "running" THEN [client EXCEPT !.pc = "on"]
                 ELSE [Sent EXCEPT !.pc = "exit"]

-------------------------------------------------------------------------------
(* The feed of events: the page loads the newest ones, follows from the last *)
(* of them, and an EventSource that reconnects names the last one it got.    *)

LoadHistory ==
    /\ channel = "feed" /\ client.pc = "idle" /\ OnlyReads
    /\ LET base == IF kept.to > Recent THEN Most(kept.from, kept.to - Recent) ELSE kept.from
       IN client' = [client EXCEPT !.pc = "loaded", !.base = base, !.got = Run(base, kept.to),
                                   !.asked = IF kept.to > base THEN kept.to ELSE 0]

\* last_id() is that of the newest row there is.
LastId == IF kept.to > kept.from THEN kept.to ELSE 0

\* Mutant: what is in the url is preferred.
StartIdByUrl == IF client.asked # 0 THEN client.asked ELSE IF client.last # 0 THEN client.last ELSE LastId
StartId == IF client.last # 0 THEN client.last ELSE IF client.asked # 0 THEN client.asked ELSE LastId
OpenFeed ==
    /\ channel = "feed" /\ client.pc \in {"loaded", "off"} /\ OnlyReads
    /\ client' = [client EXCEPT !.pc = "on", !.at = StartId,
                                !.blind = IF client.last = 0 /\ client.asked = 0 THEN Most(@, StartId) ELSE @]

\* One query: the oldest events after the last one sent, in order.
Events == LET lo == Most(client.at, kept.from) IN Run(lo, Least(lo + Batch, kept.to))
Received(n) ==
    LET items == SubSeq(Events, 1, n)
    IN [client EXCEPT !.got = @ \o items, !.at = Last(items), !.last = Last(items)]
Deliver ==
    /\ Reading("feed") /\ Events # << >> /\ OnlyReads
    /\ client' = Received(Len(Events))

\* The connection ends: its deadline, enough frames, the network; events may be
\* on their way.
Break ==
    /\ channel \in {"screen", "feed"} /\ client.pc \in {"on", "polled"}
    /\ breaks < MaxBreaks /\ breaks' = breaks + 1
    /\ \/ client' = [client EXCEPT !.pc = "off"]
       \/ channel = "feed" /\ \E n \in 1..(Len(Events) - 1) : client' = [Received(n) EXCEPT !.pc = "off"]
    /\ UNCHANGED <<channel, kept, ends, store, source, hand>>

-------------------------------------------------------------------------------
Write(n) == WriteOutput(n) \/ PutContent(n) \/ Record(n) \/ Remember(n) \/ ReadTerminal(n)
Read == ReadOutput \/ ReadContent \/ ReadLog \/ ReadHistory
Follow == OpenScreen \/ Poll \/ Settle \/ LoadHistory \/ OpenFeed \/ Deliver

Next ==
    \/ \E n \in 1..MaxLine : Write(n)
    \/ Evict \/ Absorb \/ Ends \/ CloseSession \/ Emit \/ Clear \/ Break
    \/ Read \/ Follow

\* Server threads run; a reader asks for the next page and a browser reconnects.
Spec ==
    /\ Init /\ [][Next]_vars
    /\ WF_vars(Absorb) /\ WF_vars(Read) /\ WF_vars(Follow)

-------------------------------------------------------------------------------
(* What a reader may rely on, as long as the store does not fail.           *)

Sound == store = "store"
Got == ToSet(client.got)

\* Nobody is handed an item twice or out of order: not by a page that begins
\* where the last one ended, nor by a frame, nor by a feed that reconnects
\* (web.py _sse_start_id: "instead of skipping or replaying events").
InOrderOnce ==
    Sound => \A k \in 1..(Len(client.got) - 1) : client.got[k] < client.got[k + 1]

\* Whoever pages or follows is handed everything up to where he is, except what
\* retention has dropped and, in a feed begun without an id, what was there
\* before it began.
NothingIsSkipped ==
    Sound =>
      /\ \A i \in Items : client.got # << >> /\ client.base < i /\ i < Last(client.got)
                            => i \in Got \/ i <= kept.from \/ i <= client.blind
      /\ client.pc = "done" => client.got = Run(0, client.at)

\* A reader that is told it is done has all that there was when it was told, unless
\* that page was of the capture: web.py:594-603 falls back to it when a read of the
\* blob fails, and ends the reader where the capture ends.
DoneIsAll ==
    Sound /\ client.pc = "done" /\ ~client.short => client.got = Run(0, client.told)

\* What is handed out is what was written, piece by piece.
Delivers == InOrderOnce /\ NothingIsSkipped /\ DoneIsAll

\* Following the offsets ends, and a follower that stays connected catches up:
\* whatever is written is received, unless retention dropped it, the store has
\* failed or the reader has ended (DoneIsAll says what it has then).
FollowersCatchUp ==
    \A i \in Items :
      kept.to >= i ~> \/ i \in Got \/ i <= kept.from \/ i <= client.blind \/ i <= client.base
                      \/ client.pc \in {"done", "error", "exit"}

\* The claims of the code that it does not keep.
\* static/js/terminal.js:719: a tab reconnects "so the screen is never duplicated
\* or lost": what a later connection sends was not on the screen already.
ScreenIsNotRepeated == \A i \in Got : i > client.shown

\* static/js/astra.js:1137: the live feed takes over from the history with "no
\* gap, no duplicates".
FeedHasNoGap ==
    channel = "feed" /\ client.got # << >> =>
      \A i \in client.base + 1..Last(client.got) : i \in Got \/ i <= kept.from
===============================================================================
