------------------------------ MODULE Capture ------------------------------
(***************************************************************************)
(* What the watcher makes of the payloads it has read: process_ready from  *)
(* the end of the transfer to Database::insert (watcher.rs), the kind and  *)
(* the label of the entry (types.rs), and the offers of the server that    *)
(* come back to it (server.rs).  Strings and data are sequences of bytes;  *)
(* a hash is what SHA-256 is fed.  All of it runs on the main thread: a    *)
(* panic ends the daemon, systemd starts it again, and the compositor      *)
(* announces the selection in force again.  Suppression is MimeClip's, the *)
(* database History's.                                                     *)
(***************************************************************************)
EXTENDS Integers, SequencesExt

CONSTANTS
    Special,    \* MIME types: x-special/..., x-kde-cut-selection
    Kde,        \* application/x-kde...
    Image,      \* image/...
    UriList, PlainUtf8, Plain,
    Html,       \* text/..., other than these three
    Other,      \* any other
    Offers,     \* what a transfer returns of a copy: sequences of payloads with data
    Paths,      \* absolute paths of files, which need not be UTF-8
    Picture,    \* the bytes of a screenshot
    Cut,        \* how many bytes of a text its label shows: 120
    MaxEntries  \* the limit of the history

VARIABLES
    selection,  \* the payloads of the selection in force, <<>> without one
    from,       \* who has made it, of which files, and the hash a restore has armed
    told,       \* the watcher has taken it up
    daemon,     \* where the main thread is
    history     \* the entries stored

vars == <<selection, from, told, daemon, history>>

Text == Html \cup {UriList, PlainUtf8, Plain}
Mime == Special \cup Kde \cup Image \cup Text \cup Other
Byte == 0 .. 255
Payload == [mime : Mime, data : Seq(Byte)]
With(mime, data) == [mime |-> mime, data |-> data]

\* MIME types are C strings of the Wayland protocol, and each has one of the classes.
ASSUME MimesAssumption ==
    /\ Mime \subseteq Seq(Byte \ {0})
    /\ (Special \cup Image) \cap Text = {} /\ UriList \notin {PlainUtf8, Plain}
ASSUME DataAssumption ==
    /\ Offers \subseteq Seq(Payload)
    /\ \A o \in Offers : o # <<>> /\ \A p \in Range(o) : p.data # <<>>
    /\ Paths \subseteq Seq(Byte) /\ Picture \in Seq(Byte)
    /\ <<>> \notin Paths \cup {Picture}
ASSUME LimitsAssumption == Cut \in Nat /\ MaxEntries \in Nat \ {0}

\* The order of byte strings
Before(s, t) ==
    \E i \in DOMAIN t :
        /\ \A k \in 1 .. i - 1 : k \in DOMAIN s /\ s[k] = t[k]
        /\ i \in DOMAIN s => s[i] < t[i]

-----------------------------------------------------------------------------
(***************************************************************************)
(* normalize_payloads and payload_hash                                     *)
(***************************************************************************)
Less(p, q) == Before(p.mime, q.mime) \/ (p.mime = q.mime /\ Before(p.data, q.data))

\* sort_by is stable: equal payloads stay in the order they have.
Sorted(payloads) ==
    LET I == DOMAIN payloads
        place == [i \in I |-> Cardinality({j \in I :
                    Less(payloads[j], payloads[i]) \/ (payloads[j] = payloads[i] /\ j <= i)})]
    IN [n \in I |-> payloads[CHOOSE i \in I : place[i] = n]]

\* Mutant: the variant offered first is kept.
Kept_First(mime, payloads) ==
    payloads[SelectInSeq(payloads, LAMBDA p : p.mime = mime)].data

\* Of several variants of a MIME type the smallest is kept.
Kept(mime, payloads) ==
    LET variants == {p.data : p \in {q \in Range(payloads) : q.mime = mime}}
    IN CHOOSE d \in variants : \A e \in variants \ {d} : Before(d, e)

Normalized(payloads) ==
    Sorted(SetToSeq({With(p.mime, Kept(p.mime, payloads)) : p \in Range(payloads)}))

\* Mutant: nothing separates a MIME type and its data from the next.
Encoded_Joined(p) == p.mime \o p.data

Encoded(p) == p.mime \o <<0>> \o p.data \o <<0>>

PayloadHash(payloads) ==
    LET sorted == Sorted(payloads)
    IN FlattenSeq([i \in DOMAIN sorted |-> Encoded(sorted[i])])

\* Mutant: the hash is that of the payloads as they were offered.
HashOf_Offered(payloads) == PayloadHash(payloads)

HashOf(payloads) == PayloadHash(Normalized(payloads))

-----------------------------------------------------------------------------
(***************************************************************************)
(* String::from_utf8_lossy and to_string_lossy.  A text is a sequence of   *)
(* characters, a character a sequence of bytes; what is no character, or   *)
(* only the beginning of one, becomes U+FFFD.                              *)
(***************************************************************************)

\* How many bytes a character has whose first is b; 0 if none begins so.
Width(b) ==
    IF b < 128 THEN 1 ELSE IF b \in 194 .. 223 THEN 2
    ELSE IF b \in 224 .. 239 THEN 3 ELSE IF b \in 240 .. 244 THEN 4 ELSE 0

\* What may follow b: no overlong form, no surrogate, nothing above U+10FFFF.
Second(b) ==
    IF b = 224 THEN 160 .. 191 ELSE IF b = 237 THEN 128 .. 159
    ELSE IF b = 240 THEN 144 .. 191 ELSE IF b = 244 THEN 128 .. 143 ELSE 128 .. 191

\* n bytes from i on are those a character begins with.
Begins(data, i, n) ==
    /\ n <= Width(data[i]) /\ i + n - 1 <= Len(data)
    /\ \A k \in 1 .. n - 1 : data[i + k] \in IF k = 1 THEN Second(data[i]) ELSE 128 .. 191

\* How many bytes from i on become one character, and which.
Taken(data, i) == Max({1} \cup {n \in 1 .. 4 : Begins(data, i, n)})
CharAt(data, i) ==
    IF Taken(data, i) = Width(data[i]) THEN SubSeq(data, i, i + Taken(data, i) - 1)
    ELSE <<239, 191, 189>>

Chars(data) ==
    LET Rest[i \in Nat] ==
            IF i > Len(data) THEN <<>> ELSE <<CharAt(data, i)>> \o Rest[i + Taken(data, i)]
    IN Rest[1]

Lossy(data) == FlattenSeq(Chars(data))

\* The White_Space of Unicode
Space ==
    {<<b>> : b \in 9 .. 13 \cup {32}} \cup {<<194, b>> : b \in {133, 160}}
        \cup {<<226, 128, b>> : b \in 128 .. 138 \cup {168, 169, 175}}
        \cup {<<225, 154, 128>>, <<226, 129, 159>>, <<227, 128, 128>>}
Trimmed(text) ==
    LET seen == {i \in DOMAIN text : text[i] \notin Space}
        first == CHOOSE i \in seen : \A j \in seen : i <= j
        last == CHOOSE i \in seen : \A j \in seen : i >= j
    IN IF seen = {} THEN <<>> ELSE SubSeq(text, first, last)

(***************************************************************************)
(* classify_kind and build_label                                           *)
(***************************************************************************)
KindOf(mimes) ==
    IF Special \cap mimes # {} \/ (UriList \in mimes /\ Kde \cap mimes # {}) THEN "file"
    ELSE IF Image \cap mimes # {} THEN "image"
    ELSE IF UriList \in mimes THEN "uri"
    ELSE IF Text \cap mimes # {} THEN "text"
    ELSE "other"

DataOf(mime, payloads) ==
    payloads[SelectInSeq(payloads, LAMBDA p : p.mime = mime)].data

\* The text of a text entry.
ShownText(payloads) ==
    LET mimes == {p.mime : p \in Range(payloads)}
        first == payloads[SelectInSeq(payloads, LAMBDA p : p.mime \in Text)].mime
    IN Trimmed(Chars(DataOf(
        IF PlainUtf8 \in mimes THEN PlainUtf8 ELSE IF Plain \in mimes THEN Plain ELSE first,
        payloads)))

\* Mutant: the text is always cut.
Long_Always(text) == TRUE

Long(text) == Len(FlattenSeq(text)) > Cut

\* &trimmed[..120] exists only where a character ends.
Starts(text) == {n \in 0 .. Len(text) : Len(FlattenSeq(SubSeq(text, 1, n))) = Cut}
Panics(text) == Long(text) /\ Starts(text) = {}

TextLabel(text) ==
    FlattenSeq(IF Long(text) THEN SubSeq(text, 1, CHOOSE n \in Starts(text) : TRUE) ELSE text)

\* Mutant: the last escape of a string is not decoded.
Escape_Inside(s, i) == s[i] = 37 /\ i + 2 < Len(s)

\* percent_decode: `i + 2 < len` counts from zero.
Escape(s, i) == s[i] = 37 /\ i + 2 <= Len(s)

\* The value of a hexadecimal digit; u8::from_str_radix takes a plus sign before one.
Digit(n) == IF n < 10 THEN 48 + n ELSE 55 + n
Value(b) ==
    IF b \in 48 .. 57 THEN b - 48
    ELSE IF b \in 65 .. 70 THEN b - 55 ELSE IF b \in 97 .. 102 THEN b - 87 ELSE 16
High(b) == IF b = 43 THEN 0 ELSE Value(b)

PercentDecoded(s) ==
    LET Rest[i \in Nat] ==
            IF i > Len(s) THEN <<>>
            ELSE IF Escape(s, i) /\ High(s[i + 1]) < 16 /\ Value(s[i + 2]) < 16
            THEN <<16 * High(s[i + 1]) + Value(s[i + 2])>> \o Rest[i + 3]
            ELSE <<s[i]>> \o Rest[i + 1]
    IN Rest[1]

\* The lines that are URIs: a line ends at \n, at \r\n or with the data.
Uris(data) ==
    LET First(i) == i = 1 \/ data[i - 1] = 10
        End(i) == CHOOSE j \in i .. Len(data) + 1 :
                    (j <= Len(data) => data[j] = 10) /\ \A k \in i .. j - 1 : data[k] # 10
        Line(i) == SubSeq(data, i, End(i) -
                    IF End(i) \in i + 1 .. Len(data) /\ data[End(i) - 1] = 13 THEN 2 ELSE 1)
        begins == {i \in DOMAIN data : First(i) /\ Line(i) # <<>> /\ data[i] # 35}
    IN [n \in 1 .. Cardinality(begins) |->
            Line(CHOOSE i \in begins : Cardinality({j \in begins : j <= i}) = n)]

\* trim_start_matches takes off every file:// a string begins with.
Scheme == <<102, 105, 108, 101, 58, 47, 47>>
Stripped(uri) ==
    LET After(n) == SubSeq(uri, 7 * n + 1, Len(uri))
    IN After(CHOOSE n \in 0 .. Len(uri) :
                /\ ~IsPrefix(Scheme, After(n))
                /\ \A k \in 0 .. n - 1 : IsPrefix(Scheme, After(k)))

\* The path a URI stands for, and what percent_decode makes of it.
UriPath(uri) == PercentDecoded(Stripped(uri))
FileOf(uri) == Lossy(UriPath(uri))

\* Path::file_name of a path whose last part is the name of a file
FileName(path) ==
    LET name == {i \in DOMAIN path : \A j \in i .. Len(path) : path[j] # 47}
    IN SubSeq(path, Len(path) - Cardinality(name) + 1, Len(path))

\* Mutant: one too many is taken off.
FilesLabel_Fewer(uris) == [text |-> FileName(FileOf(uris[1])), more |-> Len(uris) - 2]

\* "<name>" or "<name> and <more> more"
FilesLabel(uris) == [text |-> FileName(FileOf(uris[1])), more |-> Len(uris) - 1]

\* The label says the kind if there is nothing to show; the size of an image, which
\* imagesize finds, is left out.
LabelOf(kind, payloads) ==
    LET listed == \E p \in Range(payloads) : p.mime = UriList
        uris == IF listed THEN Uris(Lossy(DataOf(UriList, payloads))) ELSE <<>>
    IN
    IF kind \in {"file", "uri"} /\ uris # <<>> THEN FilesLabel(uris)
    ELSE IF kind = "text" THEN [text |-> TextLabel(ShownText(payloads)), more |-> 0]
    ELSE [text |-> <<>>, more |-> 0]

-----------------------------------------------------------------------------
(***************************************************************************)
(* The selection, the daemon, and systemd.                                 *)
(***************************************************************************)
Maker == {"nobody", "app", "files", "restore", "screenshot"}

Init ==
    /\ selection = <<>>
    /\ from = [who |-> "nobody", paths |-> <<>>, hash |-> <<>>]
    /\ told = TRUE
    /\ daemon = "off"
    /\ history = {}

Select(payloads, who, paths, hash) ==
    /\ selection' = payloads
    /\ from' = [who |-> who, paths |-> paths, hash |-> hash]
    /\ told' = FALSE
    /\ UNCHANGED <<daemon, history>>

\* An application copies.
Copy == \E o \in Offers : Select(o, "app", <<>>, <<>>)

\* Mutant: a percent sign is taken for safe.
Safe_Percent(b) == b \in 48 .. 57 \cup 65 .. 90 \cup 97 .. 122 \cup {37, 45, 46, 47, 95, 126}

\* file_uri_path: letters, digits and / - . _ ~ stay.
Safe(b) == b \in 48 .. 57 \cup 65 .. 90 \cup 97 .. 122 \cup {45, 46, 47, 95, 126}
FileUriPath(path) ==
    FlattenSeq([i \in DOMAIN path |->
        IF Safe(path[i]) THEN <<path[i]>>
        ELSE <<37, Digit(path[i] \div 16), Digit(path[i] % 16)>>])
Uri(path) == Scheme \o FileUriPath(path) \o <<13, 10>>

\* A file manager copies one file or two; it escapes what it must.
CopyFiles == \E mime \in Special, p, q \in Paths :
    LET files == IF p = q THEN <<p>> ELSE <<p, q>>
        list == FlattenSeq([i \in DOMAIN files |-> Uri(files[i])])
    IN Select(<<With(mime, list), With(UriList, list), With(Plain, p)>>, "files", files, <<>>)

\* dispatch OfferScreenshot with screenshot_payloads; nothing is stored or armed.
OfferScreenshot == \E mime \in Image, path \in Paths :
    /\ daemon # "off"
    /\ Select(<<With(mime, Picture), With(PlainUtf8, Lossy(path)),
                With(UriList, Uri(Lossy(path)))>>,
              "screenshot", <<path>>, <<>>)

\* A restored entry is offered as it is stored.
Restore == \E e \in history :
    /\ daemon # "off"
    /\ Select(e.payloads, "restore", <<>>, e.hash)

\* The daemon starts, or systemd starts it again; the selection is announced.
Start ==
    /\ daemon = "off"
    /\ daemon' = "watch"
    /\ told' = FALSE
    /\ UNCHANGED <<selection, from, history>>

Payloads == Normalized(selection)
Kind == KindOf({p.mime : p \in Range(Payloads)})
Fatal == Kind = "text" /\ Panics(ShownText(Payloads))

Entry ==
    [hash |-> HashOf(selection), kind |-> Kind, label |-> LabelOf(Kind, Payloads),
     payloads |-> Payloads, offered |-> Range(selection), from |-> from]

\* The watcher has been told of a selection.
Ready == daemon = "watch" /\ ~told /\ selection # <<>>

\* process_ready with the payloads of the selection, to Database::insert.  A known
\* hash is only touched; a new entry may push out others, which is History's.
Capture ==
    /\ Ready /\ ~Fatal
    /\ told' = TRUE
    /\ IF \E e \in history : e.hash = HashOf(selection)
       THEN history' = history
       ELSE \E keep \in SUBSET history :
            Cardinality(keep) < MaxEntries /\ history' = keep \cup {Entry}
    /\ UNCHANGED <<selection, from, daemon>>

\* The main thread panics; a selection that the daemon serves goes with it.
Panic ==
    /\ Ready /\ Fatal
    /\ daemon' = "off"
    /\ selection' = IF from.who \in {"restore", "screenshot"} THEN <<>> ELSE selection
    /\ UNCHANGED <<from, told, history>>

Next == Copy \/ CopyFiles \/ OfferScreenshot \/ Restore \/ Start \/ Capture \/ Panic

\* WF_vars(Start) is Restart=on-failure of the unit of systemd, and holds of no daemon
\* that is started by other means.  The main thread takes up what is announced:
\* []<>~Ready is WF_vars(Capture \/ Panic), which is enabled just when Ready holds and
\* ends it, in a form that TLC evaluates fast.
Spec == Init /\ [][Next]_vars /\ WF_vars(Start) /\ []<>~Ready
-----------------------------------------------------------------------------
EntryType(e) ==
    /\ e.kind \in {"file", "image", "uri", "text", "other"}
    /\ e.payloads \in Seq(Payload)
    /\ e.label.text \in Seq(Byte)
    /\ e.label.more \in Nat

TypeOK ==
    /\ selection \in Seq(Payload)
    /\ from.who \in Maker /\ from.paths \in Seq(Paths)
    /\ told \in BOOLEAN
    /\ daemon \in {"off", "watch"}
    /\ \A e \in history : EntryType(e)

\* There is no copy to be stored.
Done == selection = <<>> \/ (daemon = "watch" /\ told)

NulFree(payloads) == \A p \in Range(payloads) : 0 \notin Range(p.data)

\* What was copied can be restored: an entry has its hash, and it has its payloads
\* too unless one of the two contains a NUL.  README "Two entries share a hash only
\* if they offer exactly the same MIME types with exactly the same content".
CopiesKept ==
    Done /\ selection # <<>> =>
        \E e \in history :
            /\ e.hash = HashOf(selection)
            /\ NulFree(selection) /\ NulFree(e.payloads) => e.payloads = Payloads

\* The same MIME types with the same content are one entry, in whatever order and
\* however often they are offered: README "order-independent".
OneEntryPerContent ==
    \A e, f \in history : e.offered = f.offered => e = f

\* What a restore puts on the clipboard has the hash that server.rs armed, that of
\* the entry, although it is normalized and hashed again.
EchoKeepsHash ==
    from.who = "restore" /\ selection # <<>> => HashOf(selection) = from.hash

\* Files copied are shown by the name of the first and the number of the others.  A
\* name is shown as far as it is UTF-8: its characters are those of the file, with
\* U+FFFD for what is none, whatever of it the URI has escaped.
FilesNamed ==
    \A e \in history : e.from.who = "files" =>
        e.label = [text |-> FileName(Lossy(e.from.paths[1])), more |-> Len(e.from.paths) - 1]

\* The one URI that a screenshot is offered with stands for the path it is offered
\* with as text, and that is the path of its file if the path is UTF-8.  Otherwise
\* both are of a path that need not exist.
ScreenshotUriNamesFile ==
    from.who = "screenshot" /\ selection # <<>> =>
        LET uris == Uris(Lossy(DataOf(UriList, selection)))
            file == from.paths[1]
        IN /\ Len(uris) = 1
           /\ UriPath(uris[1]) = DataOf(PlainUtf8, selection)
           /\ Lossy(file) = file => UriPath(uris[1]) = file

Ascii(payloads) == \A p \in Range(payloads) : \A i \in DOMAIN p.data : p.data[i] < 128

\* A copy of which all data is ASCII is stored unless another replaces it, also after
\* a crash of the daemon over another copy, if the daemon is started again: the unit
\* of systemd does that, which README calls optional.
AsciiCopiesStored == ~Done /\ Ascii(selection) ~> Done \/ ~Ascii(selection)

\* So is any other: README "On every clipboard change, enumerate all offered MIME
\* types" and "Store all payloads as blobs".
EveryCopyStored == ~Done ~> Done
=============================================================================
