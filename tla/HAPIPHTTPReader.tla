------------------------------ MODULE HAPIPHTTPReader ------------------------------
(***************************************************************************)
(* How an IP session finds the HTTP requests in the bytes it receives: the *)
(* incremental reader, the tokens it collects over several reads, the two  *)
(* headers that matter, and the framing of requests by their length.  A    *)
(* byte is a symbol: CR LF SP : a quote, a backslash, a digit or a letter.  *)
(***************************************************************************)
EXTENDS Naturals, Sequences, SequencesExt

CONSTANTS
    Connections,        \* what controllers send: the bytes and the requests meant
    InboundBytes,       \* capacity of the inbound buffer
    MaxContentLength,   \* SIZE_MAX
    ContentTypes        \* the known ones: value -> name

VARIABLES
    connection, numReceived,
    inbound,            \* inboundBuffer
    http,               \* httpReader and the other http... fields of the session
    httpMode,           \* "Reading", "Writing", "Closed" or, after HAPAssert, "Failed"
    handled             \* the requests handled

httpVars == <<connection, numReceived, inbound, http, httpMode, handled>>

-----------------------------------------------------------------------------
IsDigit(c) == c \in {"0", "1", "2", "3", "4", "5", "6", "7", "8", "9"}
DigitOf(c) == CHOOSE d \in 0 .. 9 : ToString(d) = c
IsWhitespace(c) == c = "SP"
IsTextChar(c) == c \notin {"CR", "LF"}
IsTokenChar(c) == IsTextChar(c) /\ c \notin {"SP", ":", "quote", "backslash"}
Accepts(state, c) ==
    CASE state \in {"READING_METHOD", "READING_HEADER_NAME"} -> IsTokenChar(c)
      [] state \in {"READING_URI", "READING_VERSION"} -> c \notin {"CR", "LF", "SP", "quote", "backslash"}
      [] OTHER -> IsTextChar(c)

\* The end of the octets from n on that a state accepts, of the whitespace from n on.
RECURSIVE OctetsEnd(_, _, _), SkipWhitespace(_, _)
OctetsEnd(state, b, n) == IF n < Len(b) /\ Accepts(state, b[n + 1]) THEN OctetsEnd(state, b, n + 1) ELSE n
SkipWhitespace(b, n) == IF n < Len(b) /\ IsWhitespace(b[n + 1]) THEN SkipWhitespace(b, n + 1) ELSE n

Completed(state) ==
    CASE state = "READING_METHOD" -> "COMPLETED_METHOD"
      [] state = "READING_URI" -> "COMPLETED_URI"
      [] state = "READING_VERSION" -> "COMPLETED_VERSION"
      [] state = "READING_HEADER_NAME" -> "COMPLETED_HEADER_NAME"
      [] OTHER -> "COMPLETED_HEADER_VALUE"
Stops == {"COMPLETED_METHOD", "COMPLETED_URI", "COMPLETED_VERSION", "COMPLETED_HEADER_NAME",
          "COMPLETED_HEADER_VALUE", "DONE", "ERROR"}

\* What one turn of util_http_reader_read's loop can do: the reader, the position and the
\* token.  A line ends with CR LF or LF; whitespace comes before the next token.
Go(r, state, substate, n) == [r EXCEPT !.state = state, !.substate = substate, !.at = n, !.token = <<>>]

EndLine(r, b, n, next) ==
    IF b[n + 1] = "CR" /\ r.substate = "NONE" THEN Go(r, r.state, "AFTER_CR", n + 1)
    ELSE IF b[n + 1] = "LF" THEN Go(r, next, "NONE", n + 1)
    ELSE Go(r, "ERROR", r.substate, n)

Space(r, b, n, next) ==
    LET m == SkipWhitespace(b, n)
    IN IF r.substate # "NONE"
       THEN IF m < Len(b) THEN Go(r, next, "NONE", m) ELSE Go(r, r.state, r.substate, m)
       ELSE IF IsWhitespace(b[n + 1]) THEN Go(r, r.state, "AFTER_SP", n + 1)
       ELSE Go(r, "ERROR", "NONE", n)

\* read_octets_and_quotes: any byte may follow a backslash in a quoted string.
RECURSIVE QuotesRead(_, _, _)
QuotesRead(r, b, n) ==
    LET c == b[n + 1]
        next == CASE r.pair -> [r EXCEPT !.pair = FALSE]
                  [] ~r.pair /\ r.quoted /\ c = "backslash" -> [r EXCEPT !.pair = TRUE]
                  [] ~r.pair /\ c = "quote" -> [r EXCEPT !.quoted = ~@]
                  [] OTHER -> r
    IN IF n < Len(b) /\ (r.pair \/ IsTextChar(c)) THEN QuotesRead(next, b, n + 1)
       ELSE [r EXCEPT !.at = n]

Octets(r, b, n) ==
    LET past == IF r.state = "READING_HEADER_VALUE" THEN QuotesRead(r, b, n)
                ELSE [r EXCEPT !.at = OctetsEnd(r.state, b, n)]
        read == [past EXCEPT !.token = <<n, past.at - n>>]
    IN IF read.at < Len(b) THEN [read EXCEPT !.state = Completed(r.state), !.substate = "NONE"] ELSE read

TokenOr(otherwise, r, b, n) ==
    IF r.substate # "NONE" THEN Octets(r, b, n)
    ELSE IF Accepts(r.state, b[n + 1]) THEN Go(r, r.state, "READING", n)
    ELSE Go(r, otherwise, "NONE", n)

RequestLineStates ==
    {"EXPECTING_METHOD", "READING_METHOD", "COMPLETED_METHOD", "EXPECTING_URI", "READING_URI",
     "COMPLETED_URI", "EXPECTING_VERSION", "READING_VERSION", "COMPLETED_VERSION"}

RequestLineTurn(r, b, n) ==
    LET m == SkipWhitespace(b, n)
    IN CASE r.state = "EXPECTING_METHOD" ->
                IF r.substate # "NONE" THEN EndLine(r, b, n, "EXPECTING_METHOD")
                ELSE IF m = Len(b) THEN Go(r, r.state, "NONE", m)
                ELSE IF b[m + 1] = "CR" THEN Go(r, r.state, "AFTER_CR", m + 1)
                ELSE IF b[m + 1] = "LF" THEN Go(r, r.state, "NONE", m + 1)
                ELSE Go(r, "READING_METHOD", "NONE", m)
         [] r.state \in {"READING_METHOD", "READING_URI", "READING_VERSION"} -> TokenOr("ERROR", r, b, n)
         [] r.state = "COMPLETED_METHOD" -> Go(r, "EXPECTING_URI", "NONE", n)
         [] r.state = "EXPECTING_URI" -> Space(r, b, n, "READING_URI")
         [] r.state = "COMPLETED_URI" -> Go(r, "EXPECTING_VERSION", "NONE", n)
         [] r.state = "EXPECTING_VERSION" -> Space(r, b, n, "READING_VERSION")
         [] r.state = "COMPLETED_VERSION" -> Go(r, "EXPECTING_HEADER_NAME", "NONE", n)

HeaderTurn(r, b, n) ==
    CASE r.state = "EXPECTING_HEADER_NAME" -> EndLine(r, b, n, "READING_HEADER_NAME")
      [] r.state = "READING_HEADER_NAME" -> TokenOr("ENDING_HEADER_LINES", r, b, n)
      [] r.state = "COMPLETED_HEADER_NAME" -> Go(r, "EXPECTING_HEADER_VALUE", "NONE", n)
      [] r.state = "EXPECTING_HEADER_VALUE" ->
            IF b[n + 1] = ":" THEN Go(r, "READING_HEADER_VALUE", "NONE", n + 1)
            ELSE Go(r, "ERROR", "NONE", n)
      [] r.state = "READING_HEADER_VALUE" -> Octets(r, b, n)
      [] r.state = "COMPLETED_HEADER_VALUE" -> Go(r, "ENDING_HEADER_LINE", "NONE", n)
      [] r.state = "ENDING_HEADER_LINE" ->
            IF r.substate # "AFTER_LF"
            THEN LET line == EndLine(r, b, n, r.state)
                 IN IF b[n + 1] = "LF" THEN [line EXCEPT !.substate = "AFTER_LF"] ELSE line
            ELSE IF IsWhitespace(b[n + 1]) THEN Go(r, "READING_HEADER_VALUE", "NONE", n)
            ELSE IF r.quoted THEN Go(r, "ERROR", r.substate, n)
            ELSE Go(r, "READING_HEADER_NAME", "NONE", n)
      [] r.state = "ENDING_HEADER_LINES" -> EndLine(r, b, n, "DONE")

Turn(r, b, n) == IF r.state \in RequestLineStates THEN RequestLineTurn(r, b, n) ELSE HeaderTurn(r, b, n)

\* util_http_reader_read from the session's httpReaderPosition on.
RECURSIVE ReaderRead(_, _, _)
GoesOn(next, b) ==
    IF next.at < Len(b) /\ next.state \notin Stops THEN ReaderRead(next, b, next.at) ELSE next
ReaderRead(r, b, n) ==
    IF n >= Len(b) \/ r.state \in {"DONE", "ERROR"} THEN [r EXCEPT !.at = n, !.token = <<>>]
    ELSE GoesOn(Turn(r, b, n), b)

-----------------------------------------------------------------------------
\* prepare_reading_request.
NewReader ==
    [state |-> "EXPECTING_METHOD", substate |-> "NONE", pair |-> FALSE, quoted |-> FALSE,
     at |-> 0, token |-> <<>>]
NewRequest ==
    [reader |-> NewReader, error |-> FALSE, failed |-> FALSE, method |-> <<>>, uri |-> <<>>, name |-> <<>>, value |-> <<>>,
     length |-> <<>>, type |-> "Unknown"]

\* update_token: a token is where it begins and how long it is; <<>> for NULL.
UpdatedTokenFaulty(token, r) ==   \* Faulty: a token's later part replaces the earlier
    IF r.token = <<>> THEN token ELSE r.token

UpdatedToken(token, r) ==
    IF token = <<>> THEN r.token
    ELSE IF r.token # <<>> THEN <<token[1], token[2] + r.token[2]>>
    ELSE token

Text(b, token) == IF token = <<>> THEN <<>> ELSE SubSeq(b, token[1] + 1, token[1] + token[2])

Trimmed(text) ==
    LET left == SkipWhitespace(text, 0)
        right == SkipWhitespace(Reverse(text), 0)
    IN SubSeq(text, left + 1, Len(text) - right)

RECURSIVE NumberOf(_)
NumberOf(digits) == IF digits = <<>> THEN 0 ELSE 10 * NumberOf(Front(digits)) + DigitOf(Last(digits))

\* read_http_content_length: one number, and no other before.
ReadContentLength(s, text) ==
    LET digits == Trimmed(text)
    IN IF /\ digits # <<>> /\ s.length = <<>>
          /\ \A i \in DOMAIN digits : IsDigit(digits[i])
          /\ NumberOf(digits) <= MaxContentLength
       THEN [s EXCEPT !.length = <<NumberOf(digits)>>]
       ELSE [s EXCEPT !.error = TRUE]

\* read_http_content_type.
ReadContentType(s, text) ==
    LET value == Trimmed(text)
    IN IF SkipWhitespace(text, 0) = Len(text) THEN [s EXCEPT !.error = TRUE]
       ELSE [s EXCEPT !.type = IF value \in DOMAIN ContentTypes THEN ContentTypes[value] ELSE "Unknown"]

\* A completed header.  had: the headers that this call of read_http has met.  The value
\* of a folded line is completed once more, when the name is gone: HAPAssert fails.
Header(s, b, had) ==
    LET name == Text(b, s.name)
        text == Text(b, s.value)
        read == CASE name = <<"C", "L">> -> IF "CL" \in had THEN [s EXCEPT !.error = TRUE] ELSE ReadContentLength(s, text)
                  [] name = <<"C", "T">> -> IF "CT" \in had THEN [s EXCEPT !.error = TRUE] ELSE ReadContentType(s, text)
                  [] OTHER -> s
    IN IF s.name = <<>> THEN [s EXCEPT !.failed = TRUE]
       ELSE [read EXCEPT !.name = <<>>, !.value = <<>>]

\* What read_http makes of what the reader stopped at.
Noted(s, r, b, had) ==
    CASE r.state \in {"READING_METHOD", "COMPLETED_METHOD"} -> [s EXCEPT !.method = UpdatedToken(@, r)]
      [] r.state \in {"READING_URI", "COMPLETED_URI"} -> [s EXCEPT !.uri = UpdatedToken(@, r)]
      [] r.state \in {"READING_HEADER_NAME", "COMPLETED_HEADER_NAME"} ->
            [s EXCEPT !.name = UpdatedToken(@, r)]
      [] r.state = "READING_HEADER_VALUE" -> [s EXCEPT !.value = UpdatedToken(@, r)]
      [] r.state = "COMPLETED_HEADER_VALUE" ->
            Header([s EXCEPT !.value = UpdatedToken(@, r)], b, had)
      [] OTHER -> s

Met(s, r, b, had) ==
    IF r.state # "COMPLETED_HEADER_VALUE" THEN had
    ELSE had \cup (CASE Text(b, s.name) = <<"C", "L">> -> {"CL"}
                     [] Text(b, s.name) = <<"C", "T">> -> {"CT"}
                     [] OTHER -> {})

\* read_http.
RECURSIVE ReadHTTP(_, _, _)
ReadsOn(s, b, had) ==
    IF s.reader.at < Len(b) /\ s.reader.state \notin {"DONE", "ERROR"} /\ ~s.error /\ ~s.failed
    THEN ReadHTTP(s, b, had) ELSE s
AfterReader(s, b, had) == ReadsOn(Noted(s, s.reader, b, had), b, Met(s, s.reader, b, had))
ReadHTTP(s, b, had) ==
    AfterReader([s EXCEPT !.reader = ReaderRead(@, b, s.reader.at)], b, had)

-----------------------------------------------------------------------------
\* handle_http once all of the content is there; what follows it stays in the buffer.
ContentLength(s) == IF s.length = <<>> THEN 0 ELSE s.length[1]
IsComplete(s, b) == s.reader.state = "DONE" /\ Len(b) - s.reader.at >= ContentLength(s)
RequestOf(s, b) ==
    [method |-> Text(b, s.method), uri |-> Text(b, s.uri), type |-> s.type,
     body |-> SubSeq(b, s.reader.at + 1, s.reader.at + ContentLength(s))]

\* The bytes behind the request, which the inbound buffer keeps.
PipelinedBytes(s, b) == SubSeq(b, s.reader.at + ContentLength(s) + 1, Len(b))

\* handle_input.
HandleInput(s, b) ==
    \E read \in {ReadHTTP(s, b, {})} :
        /\ http' = read
        /\ IF read.failed
           THEN httpMode' = "Failed" /\ inbound' = b /\ UNCHANGED handled
           ELSE IF read.reader.state = "ERROR" \/ read.error
           THEN httpMode' = "Closed" /\ inbound' = b /\ UNCHANGED handled
           ELSE IF IsComplete(read, b)
           THEN /\ httpMode' = "Writing"
                /\ handled' = Append(handled, RequestOf(read, b))
                /\ inbound' = PipelinedBytes(read, b)
           ELSE /\ httpMode' = IF Len(b) = InboundBytes THEN "Closed" ELSE "Reading"
                /\ inbound' = b
                /\ UNCHANGED handled

HTTPInitOn(connections) ==
    /\ connection \in connections
    /\ numReceived = 0
    /\ inbound = <<>>
    /\ http = NewRequest
    /\ httpMode = "Reading"
    /\ handled = <<>>

HTTPInit == HTTPInitOn(Connections)

\* ReadInboundData: some of the bytes that are under way, as many as there is room for.
ReceivePart(n) ==
    /\ httpMode = "Reading"
    /\ numReceived' = numReceived + n
    /\ numReceived' <= Len(connection.bytes)
    /\ Len(inbound) + n <= InboundBytes
    /\ HandleInput(http, inbound \o SubSeq(connection.bytes, numReceived + 1, numReceived'))
    /\ UNCHANGED connection

\* handle_output_completion: the next request may be there already.
CompleteOutput ==
    /\ httpMode = "Writing"
    /\ IF inbound # <<>> THEN HandleInput(NewRequest, inbound)
       ELSE http' = NewRequest /\ httpMode' = "Reading" /\ UNCHANGED <<inbound, handled>>
    /\ UNCHANGED <<connection, numReceived>>

HTTPNext ==
    \/ \E n \in 1 .. InboundBytes : ReceivePart(n)
    \/ CompleteOutput

HTTPSpec == HTTPInit /\ [][HTTPNext]_httpVars
-----------------------------------------------------------------------------
\* A request that comes at once, and one that comes byte by byte.
AtOnce(b) == ReadHTTP(NewRequest, b, {})
RECURSIVE ByteByByte(_)
ByteByByte(b) ==
    LET s == ByteByByte(Front(b))
    IN IF b = <<>> THEN NewRequest
       ELSE IF s.error \/ s.failed \/ s.reader.state \in {"DONE", "ERROR"} THEN s
       ELSE ReadHTTP(s, b, {})

\* However the bytes of a request are divided into parts, the session knows of it what it
\* would if they had come at once.  One request is the exception: a second Content-Type is
\* refused if it comes in the part of the first one, and replaces that one if it comes in
\* a later part (HAPIPAccessoryServer.c:3088, 3160).
Same(s, t) == s = [t EXCEPT !.reader.token = s.reader.token]

PartsDoNotMatter ==
    httpMode # "Writing" =>
        IF connection.fate # "depends" \/ handled # <<>> THEN Same(http, AtOnce(inbound))
        ELSE http.error \/ Same(http, ByteByByte(inbound))

\* The requests that are handled are those that were sent, in their order and one at a
\* time, each with its own body, and none is lost.  A session is closed only when a request
\* is malformed or does not fit the buffer, and always when it has two Content-Lengths; a
\* header that is folded ends the process.
RequestsAreFramed ==
    LET all == numReceived = Len(connection.bytes)
    IN /\ connection.fate \in {"served", "depends"} =>
            /\ IsPrefix(handled, connection.requests)
            /\ httpMode = "Reading" /\ all => handled = connection.requests
            /\ httpMode \in {"Closed", "Failed"} => connection.fate = "depends" /\ http.error
       /\ connection.fate \in {"Closed", "Failed"} =>
            /\ handled = <<>>
            /\ httpMode \in {"Reading", connection.fate}
            /\ all => httpMode = connection.fate

\* Requests arrive as they were sent, however the stream is cut.
RequestsArriveAsSent == PartsDoNotMatter /\ RequestsAreFramed
====================================================================================
