------------------------------- MODULE NetPages -------------------------------
(***************************************************************************)
(* Reading pages from the internet (harness/net.py): fetch_url, which shows *)
(* a window of a page and says where the next one starts, and the cache its *)
(* follow-up calls and web_search's read threads are served from.           *)
(*                                                                         *)
(* A page's text is a sequence of lines [len, level, hit]: the level is 0   *)
(* for a line that is no heading, and hit says how the line answers find=.  *)
(***************************************************************************)
EXTENDS Integers, Sequences, SequencesExt, FiniteSets, FiniteSetsExt

CONSTANTS
  Urls, Sizes,      \* pages, and the bytes a version of one may have
  CACHE_MAX, CACHE_MAX_BYTES,
  Ceiling, Lower,   \* net_max_bytes, and a max_bytes= the model asks for
  Workers,          \* web_search's threads
  MaxVersions, MaxCalls   \* bounds: the versions of a page, the calls

VARIABLES
  site,     \* url -> its versions' sizes, the last one is served
  cache,    \* _cache, least recently used first
  call,     \* the tool call that runs
  flights,  \* worker -> its download
  shown,    \* history: key -> the version the model last saw
  answer,   \* the last thing a page was read for
  calls     \* calls made

netVars == <<site, cache, call, flights, shown, answer, calls>>

Maxes == {Ceiling, Min({Lower, Ceiling})}
Keys == Urls \X Maxes
NoCall == [tool |-> "none", urls |-> {}, plain |-> FALSE]
NoFlight == [key |-> <<>>, since |-> 0]
NoAnswer == [key |-> <<>>, version |-> 0, from |-> "none", plain |-> FALSE]

Init ==
  /\ site = [u \in Urls |-> <<Min(Sizes)>>] /\ cache = <<>> /\ call = NoCall
  /\ flights = [w \in Workers |-> NoFlight] /\ shown = [k \in Keys |-> 0]
  /\ answer = NoAnswer /\ calls = 0

-----------------------------------------------------------------------------
(* The page cache *)

Cached(key) == {i \in DOMAIN cache : cache[i].key = key}
EntryBytes(e) == e.raw + (IF e.decoded THEN e.raw ELSE 0)
Held(c) == FoldLeft(LAMBDA n, e : n + EntryBytes(e), 0, c)
WithoutKey(c, key) == SelectSeq(c, LAMBDA e : e.key # key)

\* A single page over the byte ceiling stays.
Full(c) == Len(c) > CACHE_MAX \/ (Held(c) > CACHE_MAX_BYTES /\ Len(c) > 1)

Put(c, e) == Append(WithoutKey(c, e.key), e)

\* _cache_put: the least recently used pages go until the rest fits.
CachePut(c, e) ==
  LET all == Put(c, e)
      Rest(n) == SubSeq(all, n + 1, Len(all))
  IN Rest(Min({n \in 0..Len(all) : ~Full(Rest(n))}))

Touched(c, i) == Append(RemoveAt(c, i), c[i])

\* _decoded: the text is kept with a page that is still in the cache.
Decoded(c, key, version) ==
  [i \in DOMAIN c |-> IF c[i].key = key /\ c[i].version = version
                      THEN [c[i] EXCEPT !.decoded = TRUE] ELSE c[i]]

-----------------------------------------------------------------------------
(* The calls *)

Busy(w) == flights[w] # NoFlight
Idle == \A w \in Workers : ~Busy(w)

Show(key, version, from, plain) ==
  /\ answer' = [key |-> key, version |-> version, from |-> from, plain |-> plain]
  /\ shown' = [shown EXCEPT ![key] = version]

\* A page read from the cache becomes the most recently used one.
FromCache(key, plain) ==
  \E i \in Cached(key) :
    /\ Show(key, cache[i].version, "cache", plain)
    /\ cache' = Decoded(Touched(cache, i), key, cache[i].version)

Send(w, key) == flights' = [flights EXCEPT ![w] = [key |-> key, since |-> Len(site[key[1]])]]

\* fetch_url: only a call that pages through a page consults the cache.
Consults(plain) == ~plain

FetchUrl(key, plain) ==
  LET w == CHOOSE w \in Workers : TRUE
  IN /\ call = NoCall /\ calls < MaxCalls /\ calls' = calls + 1
     /\ IF Consults(plain) /\ Cached(key) # {}
        THEN FromCache(key, plain) /\ UNCHANGED <<call, flights>>
        ELSE /\ call' = [tool |-> "fetch_url", urls |-> {}, plain |-> plain]
             /\ Send(w, key) /\ UNCHANGED <<cache, shown, answer>>
     /\ UNCHANGED site

WebSearch(urls) ==
  /\ call = NoCall /\ calls < MaxCalls /\ calls' = calls + 1
  /\ call' = [tool |-> "web_search", urls |-> urls, plain |-> FALSE]
  /\ UNCHANGED <<site, cache, flights, shown, answer>>

\* A read thread takes a page: fetch_page.
FetchPage(w, url) ==
  LET key == <<url, Ceiling>>
  IN /\ call.tool = "web_search" /\ url \in call.urls /\ ~Busy(w)
     /\ call' = [call EXCEPT !.urls = @ \ {url}]
     /\ IF Cached(key) # {} THEN FromCache(key, FALSE) /\ UNCHANGED flights
        ELSE Send(w, key) /\ UNCHANGED <<cache, shown, answer>>
     /\ UNCHANGED <<site, calls>>

\* The call is over when its last download ended: a fetch_url has one.
Landed(w) ==
  /\ flights' = [flights EXCEPT ![w] = NoFlight]
  /\ call' = IF call.tool = "fetch_url" THEN NoCall ELSE call

\* _get answers with an error, or a status that is not cached: the guard refused the URL
\* or a hop, there were too many hops, the deadline passed, Esc, the network failed.
Fail(w) == Busy(w) /\ Landed(w) /\ UNCHANGED <<site, cache, shown, answer, calls>>

\* A 2xx answer, cut at max_bytes; it is stored before it is decoded and shown.
Land(w) ==
  LET f == flights[w]
      sizes == site[f.key[1]]
      Page(v) == [key |-> f.key, version |-> v, raw |-> Min({sizes[v], f.key[2]}), decoded |-> FALSE]
  IN /\ Busy(w) /\ Landed(w)
     /\ \E v \in f.since..Len(sizes) :   \* a version served while it was on its way
          /\ cache' = Decoded(CachePut(cache, Page(v)), f.key, v)
          /\ Show(f.key, v, "network", call.plain)
     /\ UNCHANGED <<site, calls>>

EndSearch == /\ call.tool = "web_search" /\ call.urls = {} /\ Idle /\ call' = NoCall
             /\ UNCHANGED <<site, cache, flights, shown, answer, calls>>

\* /net-cache drop n, clear: the n-th from the most recently used.
Drop(n) ==
  /\ n \in DOMAIN cache /\ cache' = RemoveAt(cache, Len(cache) - n + 1)
  /\ UNCHANGED <<site, call, flights, shown, answer, calls>>
Clear == cache # <<>> /\ cache' = <<>> /\ UNCHANGED <<site, call, flights, shown, answer, calls>>

Publish(url, size) ==
  /\ Len(site[url]) < MaxVersions /\ site' = [site EXCEPT ![url] = Append(@, size)]
  /\ UNCHANGED <<cache, call, flights, shown, answer, calls>>

Next ==
  \/ \E key \in Keys, plain \in BOOLEAN : FetchUrl(key, plain)
  \/ \E urls \in SUBSET Urls \ {{}} : WebSearch(urls)
  \/ \E w \in Workers : (\E url \in Urls : FetchPage(w, url)) \/ Fail(w) \/ Land(w)
  \/ EndSearch
  \/ \E n \in 1..CACHE_MAX : Drop(n)
  \/ Clear
  \/ \E url \in Urls, size \in Sizes : Publish(url, size)

Spec == Init /\ [][Next]_netVars

-----------------------------------------------------------------------------
(* _window: the part of a page a call returns *)

\* Where a line starts; a page's characters are 0..Total - 1.
StartOf(body, i) == FoldLeft(LAMBDA n, l : n + l.len + 1, 0, SubSeq(body, 1, i - 1))
Total(body) == IF body = <<>> THEN 0 ELSE StartOf(body, Len(body) + 1) - 1
Heads(body) == {i \in DOMAIN body : body[i].level > 0}
Newlines(body) == {StartOf(body, i) - 1 : i \in 2..Len(body)}

\* _sections: a stack of the headings that are open; a heading closes those at its level
\* or below.
Closed(st, popped, at) ==
  [open |-> st.open \ popped, ends |-> [o \in DOMAIN st.ends \cup popped |-> IF o \in popped THEN at ELSE st.ends[o]]]
Opened(st, i) == [st EXCEPT !.open = @ \cup {i}]
Sections(body) ==
  LET Step(st, i) ==
        IF body[i].level = 0 THEN st
        ELSE Opened(Closed(st, {o \in st.open : body[o].level >= body[i].level}, StartOf(body, i)), i)
      Ends(last) == [i \in Heads(body) |-> IF i \in last.open THEN Total(body) ELSE last.ends[i]]
  IN Ends(FoldLeft(Step, [open |-> {}, ends |-> <<>>], [i \in DOMAIN body |-> i]))

\* _locate: a heading that matches, else a line that does, else a heading with a word of
\* it, else the passage that matches best; 0 for nowhere.
Or(lines, other) == IF lines # {} THEN Min(lines) ELSE other
Locate(body) ==
  LET Lines(hit) == {i \in DOMAIN body : body[i].hit = hit}
  IN Or(Lines("exact") \cap Heads(body), Or(Lines("exact"), Or(Lines("word") \cap Heads(body), Or(Lines("word"), 0))))

\* A line boundary is only taken when one is reasonably close to the end.
CutAt(cut, start, max_chars) == cut > start + max_chars \div 2

\* The characters from..to - 1, and the offset a note names for the next part (0 for none).
Part(from, to, next) == [from |-> from, to |-> to, next |-> next]
UpTo(start, end, total) == Part(start, end, IF end < total THEN end ELSE 0)
\* With all the window could hold and the line ends in it.
EndOf(start, all, total, cuts, max_chars) ==
  IF all < total /\ cuts # {} /\ CutAt(Max(cuts), start, max_chars) THEN Max(cuts) ELSE all
\* section: where the section found ends, if one was.
Bounded(body, start, all, total, section, max_chars) ==
  IF section < all THEN UpTo(start, section, total)
  ELSE UpTo(start, EndOf(start, all, total, {c \in Newlines(body) : c >= start /\ c < all}, max_chars), total)
From(body, start, total, section, max_chars) ==
  IF start >= total /\ total > 0 THEN Part(0, 0, 0)
  ELSE IF max_chars = 0 \/ (start = 0 /\ total <= max_chars) THEN Part(0, total, 0)
  ELSE Bounded(body, start, Min({total, start + max_chars}), total, section, max_chars)
AtLine(body, line, offset, max_chars) ==
  IF line > 0 THEN From(body, StartOf(body, line), Total(body), IF line \in Heads(body) THEN Sections(body)[line] ELSE Total(body), max_chars)
  ELSE From(body, offset, Total(body), Total(body), max_chars)
Window(body, offset, find, max_chars) == AtLine(body, IF find THEN Locate(body) ELSE 0, offset, max_chars)

\* The windows a model reads that follows the offset each one names, at most n of them.
Following(body, offset, find, max_chars, n) ==
  LET Step(ws, k) == IF Last(ws).next = 0 THEN ws
                     ELSE Append(ws, Window(body, Last(ws).next, FALSE, max_chars))
  IN FoldLeft(Step, <<Window(body, offset, find, max_chars)>>, [k \in 1..n |-> k])

-----------------------------------------------------------------------------
(* Properties *)

TypeOK ==
  /\ \A i \in DOMAIN cache : cache[i].key \in Keys /\ cache[i].version \in 1..MaxVersions
  /\ \A i, j \in DOMAIN cache : cache[i].key = cache[j].key => i = j
  /\ \A w \in Workers : Busy(w) => call # NoCall

\* The cache stays within its limits whatever is downloaded, decoded later or dropped: "a 65th
\* page or the byte ceiling pushes the least recently used one out".
CacheBounded ==
  /\ Len(cache) <= CACHE_MAX
  /\ Len(cache) > 1 => FoldLeft(LAMBDA n, e : n + e.raw, 0, cache) <= CACHE_MAX_BYTES

\* A plain fetch never shows a page from the cache, and a follow-up that is served from it shows
\* a part of the very download the model saw last ("reads the page it already downloaded").
FollowUpsAgreeStep ==
  answer' # answer /\ answer'.from = "cache"
    => ~answer'.plain /\ answer'.version = shown[answer'.key]
FollowUpsAgree == [][FollowUpsAgreeStep]_netVars

Read(ws, total) ==
  /\ \A i \in 1..(Len(ws) - 1) : ws[i + 1].from = ws[i].to /\ ws[i + 1].to > ws[i].to
  /\ Last(ws).next = 0 /\ (ws[1].to > 0 => Last(ws).to = total)

\* Following the offsets from any window reads the rest of the page: every call moves on, none
\* leaves a character out, and the last one ends with the page ("for the next part").
ReadsThrough(body, max_chars) ==
  \A offset \in {0, 1}, find \in BOOLEAN : Read(Following(body, offset, find, max_chars, Total(body) + 1), Total(body))

\* A section ends where the next heading at its level or above begins.
SectionsEnd(body, sections) ==
  \A i \in Heads(body) :
    LET next == {j \in Heads(body) : j > i /\ body[j].level <= body[i].level}
    IN sections[i] = IF next = {} THEN Total(body) ELSE StartOf(body, Min(next))
=============================================================================
