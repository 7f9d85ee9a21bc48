-------------------------------- MODULE LwsData --------------------------------
(***************************************************************************)
(* The algorithms of the module that turn data into other data: what a     *)
(* chunk gets of a request (lws.parseargs, request.headers, request.body), *)
(* the cookies it sets, and the searches in sorted tables.  Each is        *)
(* compared to what it is to compute, defined without its loop, on all     *)
(* inputs that grow, symbol by symbol, from nothing.                       *)
(*                                                                         *)
(* Text is a sequence of characters, which are numbers, 0 .. 255; in the   *)
(* cookies and headers it is one of symbols that the algorithm can tell    *)
(* apart.                                                                  *)
(*                                                                         *)
(* A definition named X_<Mistake> is X with a plausible mistake in it.  No *)
(* specification uses it; it serves to see that a property depends on X.   *)
(***************************************************************************)
EXTENDS Integers, SequencesExt, FiniteSetsExt

CONSTANTS Characters,   \* the characters of arguments
          MaxFields,    \* the second argument of lws.parseargs
          Headers,      \* request headers: [name, value]
          Lower,        \* ngx_tolower, of names
          Cookies,      \* cookies, without a comma but that of a date
          Reads,        \* the sizes that the C library reads
          MaxText,      \* bound: the length of arguments, and of a body
          MaxItems,     \* bound: the headers, and the cookies
          MaxNumber     \* bound: the numbers searched for

ASSUME DataAssumption ==
    /\ Characters \subseteq 0 .. 255
    /\ {MaxFields, MaxText, MaxItems, MaxNumber} \subseteq Nat
    /\ Reads \subseteq Nat \ {0}

(* Values of headers, and cookies, are sequences of symbols.               *)
ASSUME SequencesAssumption ==
    /\ \A h \in Headers : h.value \in Seq(ToSet(h.value))
    /\ \A c \in Cookies : c \in Seq(ToSet(c))

VARIABLES args,      \* a string of characters
          headers,   \* the headers of a request
          cookies,   \* cookies to set
          bufs,      \* the buffers of a request body, not empty
          number     \* a status, or a size

vars == <<args, headers, cookies, bufs, number>>

Init == args = <<>> /\ headers = <<>> /\ cookies = <<>> /\ bufs = <<>> /\ number = 0

(* One of the inputs grows, the others being empty.                        *)
Type(x) == /\ <<headers, cookies, bufs, number>> = <<<<>>, <<>>, <<>>, 0>>
           /\ Len(args) < MaxText
           /\ args' = Append(args, x)
           /\ UNCHANGED <<headers, cookies, bufs, number>>

AddHeader(h) == /\ <<args, cookies, bufs, number>> = <<<<>>, <<>>, <<>>, 0>>
                /\ Len(headers) < MaxItems
                /\ headers' = Append(headers, h)
                /\ UNCHANGED <<args, cookies, bufs, number>>

AddCookie(c) == /\ <<args, headers, bufs, number>> = <<<<>>, <<>>, <<>>, 0>>
                /\ Len(cookies) < MaxItems
                /\ cookies' = Append(cookies, c)
                /\ UNCHANGED <<args, headers, bufs, number>>

(* The bytes of a body are numbered.                                       *)
AddByte == /\ <<args, headers, cookies, number>> = <<<<>>, <<>>, <<>>, 0>>
           /\ Len(FlattenSeq(bufs)) < MaxText
           /\ LET byte == Len(FlattenSeq(bufs)) + 1 IN
              \/ bufs' = Append(bufs, <<byte>>)
              \/ bufs # <<>> /\ bufs' = Append(Front(bufs), Append(Last(bufs), byte))
           /\ UNCHANGED <<args, headers, cookies, number>>

Count == /\ <<args, headers, cookies, bufs>> = <<<<>>, <<>>, <<>>, <<>>>>
         /\ number < MaxNumber
         /\ number' = number + 1
         /\ UNCHANGED <<args, headers, cookies, bufs>>

Next == \/ \E x \in Characters : Type(x)
        \/ \E h \in Headers : AddHeader(h)
        \/ \E c \in Cookies : AddCookie(c)
        \/ AddByte
        \/ Count

Spec == Init /\ [][Next]_vars

-------------------------------------------------------------------------------
(* lws_unescape_url.                                                       *)
Space == 32  Percent == 37  Ampersand == 38  Plus == 43  Equals == 61

Digit == 48 .. 57   Upper == 65 .. 70   Small == 97 .. 102

IsHex(x) == x \in Digit \cup Upper \cup Small

Hex(x) == CASE x \in Digit -> x - 48
            [] x \in Upper -> x - 65 + 10
            [] x \in Small -> x - 97 + 10

Char == 0 .. 255

Text == Seq(Char)

(* The state tells what is expected: 0 any character, 1 the first digit of *)
(* an escape, 2 its second, the first being c.                             *)
Unescape[at \in Text \X (0 .. 2) \X Char] ==
    LET s == at[1]  state == at[2]  c == at[3] IN
    IF s = <<>>
    THEN CASE state = 0 -> <<>>
           [] state = 1 -> <<Percent>>
           [] state = 2 -> <<Percent, c>>
    ELSE LET x == Head(s) IN
         CASE state = 0 /\ x = Plus              -> <<Space>> \o Unescape[<<Tail(s), 0, 0>>]
           [] state = 0 /\ x = Percent           -> Unescape[<<Tail(s), 1, 0>>]
           [] state = 0 /\ x \notin {Plus, Percent} -> <<x>> \o Unescape[<<Tail(s), 0, 0>>]
           [] state = 1 /\ IsHex(x)              -> Unescape[<<Tail(s), 2, x>>]
           [] state = 1 /\ ~IsHex(x)             -> <<Percent>> \o Unescape[<<s, 0, 0>>]
           [] state = 2 /\ IsHex(x)              ->
                  <<Hex(c) * 16 + Hex(x)>> \o Unescape[<<Tail(s), 0, 0>>]
           [] state = 2 /\ ~IsHex(x)             -> <<Percent>> \o Unescape[<< <<c>> \o s, 0, 0>>]

(* lws_parseargs: an error if there are too many fields, else the table of *)
(* keys and values.  What is in s up to its first separator is a key, in   *)
(* state 0, or the value of key.                                           *)
Separators_Greedy(state) == {Ampersand, Equals}

Separators(state) == IF state = 0 THEN {Ampersand, Equals} ELSE {Ampersand}

NoArgs == [key \in {} |-> <<>>]

(* Of two values of a key the later one stays.                             *)
With(later, key, value) ==
    [k \in DOMAIN later \cup {key} |-> IF k \in DOMAIN later THEN later[k] ELSE value]

TokenLength(s, state) ==
    LET ends == {i \in DOMAIN s : s[i] \in Separators(state)}
    IN  IF ends = {} THEN Len(s) ELSE Min(ends) - 1

Parse[at \in Text \X (0 .. 1) \X Text] ==
    LET s     == at[1]
        state == at[2]
        key   == at[3]
        n     == TokenLength(s, state)
        token == Unescape[<<SubSeq(s, 1, n), 0, 0>>]
        isKey == state = 0 /\ n < Len(s) /\ s[n + 1] = Equals
        later == IF n = Len(s) THEN NoArgs
                 ELSE Parse[<<SubSeq(s, n + 2, Len(s)), IF isKey THEN 1 ELSE 0, token>>]
    IN  CASE isKey                         -> later
          [] ~isKey /\ state = 0 /\ n > 0 -> With(later, token, <<>>)
          [] ~isKey /\ state = 0 /\ n = 0 -> later
          [] state = 1                     -> With(later, key, token)

TooMany(s) == 1 + Len(SelectSeq(s, LAMBDA x : x = Ampersand)) > MaxFields

ParseArgs(s) == Parse[<<s, 0, <<>> >>]

-------------------------------------------------------------------------------
(* The request headers (lws_handler): headers of the same name, but for    *)
(* case, make one.  First its length is found, with the separators ...     *)
Comma == ","

Blank == " "

Named(name) ==
    FlattenSeq([i \in DOMAIN headers |->
                   IF Lower[headers[i].name] = name THEN <<headers[i]>> ELSE <<>>])

HeaderLength(name) ==
    LET named == Named(name)
    IN  FoldLeft(LAMBDA len, h : len + 2 + Len(h.value), Len(Head(named).value), Tail(named))

(* ... then its value, unless it is that of a single header.               *)
HeaderValue(name) ==
    LET named == Named(name)
    IN  FoldLeft(LAMBDA value, h : value \o <<Comma, Blank>> \o h.value,
                 Head(named).value, Tail(named))

(* lws_read_handler: a read of at most size bytes gives some of the first  *)
(* buffer and leaves the chain.  The stream is read until nothing comes.   *)
ReadFrom(cl, size) ==
    IF cl = <<>> THEN [bytes |-> <<>>, cl |-> <<>>]
    ELSE LET buf   == Head(cl)
             count == Min({Len(buf), size})
             rest  == SubSeq(buf, count + 1, Len(buf))
         IN  [bytes |-> SubSeq(buf, 1, count),
              cl    |-> IF rest = <<>> THEN Tail(cl) ELSE <<rest>> \o Tail(cl)]

ReadAll(chain, size) ==
    LET all[cl \in Seq(Seq(Nat))] ==
            LET read == ReadFrom(cl, size) IN
            IF read.bytes = <<>> THEN <<>> ELSE read.bytes \o all[read.cl]
    IN  all[chain]

-------------------------------------------------------------------------------
(* The Set-Cookie header (lws_set_response_header): its value, a sequence  *)
(* of symbols, is split at commas, but not at the one of a date: the first *)
(* one in an attribute "Expires=".                                         *)
Semicolon == ";"   Expires == "Expires="

BlanksFrom(s, i) == Min({j \in i .. Len(s) + 1 : j = Len(s) + 1 \/ s[j] # Blank})

(* The position of the comma that ends the cookie from "start" on, or past *)
(* the end; "expires" tells that a date may follow.                        *)
CookieEnd(s, start) ==
    LET end[at \in (1 .. Len(s) + 1) \X BOOLEAN] ==
            LET i       == at[1]
                expires == at[2]
                next    == BlanksFrom(s, i + 1)
            IN  IF i > Len(s) \/ (s[i] = Comma /\ ~expires) THEN i
                ELSE end[<<i + 1, CASE s[i] = Semicolon -> next <= Len(s) /\ s[next] = Expires
                                    [] s[i] = Comma     -> FALSE
                                    [] OTHER            -> expires>>]
    IN  end[<<start, FALSE>>]

After_Comma(s, end) == end + 1

After(s, end) == BlanksFrom(s, end + 1)

Unfold(s) ==
    LET from[start \in 1 .. Len(s) + 1] ==
            LET end    == CookieEnd(s, start)
                cookie == SubSeq(s, start, end - 1)
            IN  IF end > Len(s) \/ After(s, end) > Len(s) THEN <<cookie>>
                ELSE <<cookie>> \o from[After(s, end)]
    IN  from[1]

-------------------------------------------------------------------------------
(* The index of the first entry of a sorted table that is not less than x, *)
(* or one past its end (lws_find_http_status, lws_table_size).             *)
Search_Strict(table, x) ==
    LET halved[at \in (0 .. Len(table)) \X (-1 .. Len(table) - 1)] ==
            LET lower == at[1]
                upper == at[2]
                mid   == (lower + upper) \div 2
            IN  IF lower >= upper THEN lower
                ELSE IF table[mid + 1] < x THEN halved[<<mid + 1, upper>>]
                ELSE halved[<<lower, mid - 1>>]
    IN  halved[<<0, Len(table) - 1>>] + 1

Search(table, x) ==
    LET halved[at \in (0 .. Len(table)) \X (-1 .. Len(table) - 1)] ==
            LET lower == at[1]
                upper == at[2]
                mid   == (lower + upper) \div 2
            IN  IF lower > upper THEN lower
                ELSE IF table[mid + 1] < x THEN halved[<<mid + 1, upper>>]
                ELSE halved[<<lower, mid - 1>>]
    IN  halved[<<0, Len(table) - 1>>] + 1

(* The codes of lws_http_status.  Two of them have two names, the one of   *)
(* the present first.                                                      *)
lws_http_status ==
    <<100, 101, 102,
      200, 201, 202, 203, 204, 205, 206,
      300, 301, 302, 303, 304, 305, 307, 308,
      400, 401, 402, 403, 404, 405, 406, 407, 408, 409, 410, 411, 412, 413, 413, 414, 414,
      415, 416, 417, 421, 422, 426, 429,
      500, 501, 502, 503, 504, 505, 507>>

(* The index of a code, 0 if it is not known.                              *)
FindHttpStatus(code) ==
    LET i == Search(lws_http_status, code) IN
    IF i <= Len(lws_http_status) /\ lws_http_status[i] = code THEN i ELSE 0

(* The first of the sizes of tables, as gen/table.c has made them.         *)
lws_table_sizes ==
    <<3, 5, 7, 11, 13, 17, 23, 29, 41, 53, 67, 89, 127, 157, 211, 277, 373, 499, 659, 877, 1171,
      1553, 2081, 2767, 3691, 4909, 6547, 8731, 11633, 15511, 20681>>

(* lws_table_size: the size of a table for so many entries, or -1.         *)
TableSize(size) ==
    LET i == Search(lws_table_sizes, size) IN
    IF i > Len(lws_table_sizes) THEN -1 ELSE lws_table_sizes[i]

(* isqrt, is_prime and next_prime of gen/table.c.                          *)
Isqrt(n) ==
    LET count[at \in Nat \X Nat] ==
            LET a == at[1]  d == at[2] IN
            IF a <= n THEN 1 + count[<<a + d, d + 2>>] ELSE 0
    IN  count[<<1, 3>>]

IsPrime_Below(n) ==
    IF n <= 3 THEN n > 1
    ELSE /\ n % 2 # 0 /\ n % 3 # 0
         /\ \A i \in 5 .. Isqrt(n) - 1 : i % 6 = 5 => n % i # 0 /\ n % (i + 2) # 0

IsPrime(n) ==
    IF n <= 3 THEN n > 1
    ELSE /\ n % 2 # 0 /\ n % 3 # 0
         /\ \A i \in 5 .. Isqrt(n) : i % 6 = 5 => n % i # 0 /\ n % (i + 2) # 0

NextPrime[n \in Nat] == IF IsPrime(n) THEN n ELSE NextPrime[n + 1]

(* primes: from 3 on, each number a third greater than the last one; the   *)
(* next primes, but none twice.                                            *)
Primes(min, limit) ==
    LET from[at \in Nat \X Nat] ==
            LET size == at[1]  previous == at[2]  prime == NextPrime[size] IN
            IF size >= limit THEN <<>>
            ELSE (IF prime = previous THEN <<>> ELSE <<prime>>)
                 \o from[<<size + size \div 3, prime>>]
    IN  from[<<min, 0>>]

-------------------------------------------------------------------------------
(* Properties.                                                             *)

(* What lws.parseargs is to give: of the fields of a form, between the     *)
(* ampersands, and not empty, the last one of a key gives the value, after *)
(* the first "=", if any; where an escape is two hexadecimal digits after  *)
(* "%", and a "%" without them stays.                                      *)
IsEscape(s, i) == /\ i \in DOMAIN s /\ i + 2 <= Len(s)
                  /\ s[i] = Percent /\ IsHex(s[i + 1]) /\ IsHex(s[i + 2])

Octet(s, i) == CASE IsEscape(s, i) -> <<16 * Hex(s[i + 1]) + Hex(s[i + 2])>>
                 [] IsEscape(s, i - 1) \/ IsEscape(s, i - 2) -> <<>>
                 [] s[i] = Plus -> <<Space>>
                 [] OTHER -> <<s[i]>>

Meant(s) == FlattenSeq([i \in DOMAIN s |-> Octet(s, i)])

FieldsOf(s) ==
    LET cuts == {i \in DOMAIN s : s[i] = Ampersand} \cup {0, Len(s) + 1} IN
    {f \in cuts \X cuts : f[1] + 1 < f[2] /\ \A i \in cuts : ~(f[1] < i /\ i < f[2])}

EqualsOf(s, f) == Min({i \in f[1] + 1 .. f[2] - 1 : s[i] = Equals} \cup {f[2]})

KeyOf(s, f) == Meant(SubSeq(s, f[1] + 1, EqualsOf(s, f) - 1))

ValueOf(s, f) == Meant(SubSeq(s, EqualsOf(s, f) + 1, f[2] - 1))

MeantArgs(s) ==
    [k \in {KeyOf(s, f) : f \in FieldsOf(s)} |->
        ValueOf(s, CHOOSE f \in FieldsOf(s) :
                       /\ KeyOf(s, f) = k
                       /\ \A g \in FieldsOf(s) : KeyOf(s, g) = k => g[1] <= f[1])]

Joined(values) ==
    FlattenSeq([i \in DOMAIN values |->
                   IF i = 1 THEN values[i] ELSE <<Comma, Blank>> \o values[i]])

ArgsRight == ~TooMany(args) => ParseArgs(args) = MeantArgs(args)

HeadersRight ==
    \A h \in ToSet(headers) :
        LET named  == Named(Lower[h.name])
            values == [i \in DOMAIN named |-> named[i].value]
        IN  /\ HeaderValue(Lower[h.name]) = Joined(values)
            /\ HeaderLength(Lower[h.name]) = Len(Joined(values))

BodyRight == \A size \in Reads : ReadAll(bufs, size) = FlattenSeq(bufs)

(* A chunk gets of a request what was sent: the fields of a form, though   *)
(* the automaton that decodes it steps back over what looks like an escape *)
(* and is none; the headers, those of one name in their order, in a buffer *)
(* of exactly the length that was found before; and the body whole, in     *)
(* whatever pieces it is read.                                             *)
RequestRight == ArgsRight /\ HeadersRight /\ BodyRight

(* A cookie is not empty, does not begin with a blank, and has no comma    *)
(* but one in each date, which an attribute "Expires=" holds.              *)
DateBefore(s, i) ==
    \E j \in 1 .. i - 1 :
        /\ s[j] = Semicolon
        /\ LET k == BlanksFrom(s, j + 1) IN k <= Len(s) /\ s[k] = Expires
        /\ \A l \in j + 1 .. i - 1 : s[l] \notin {Semicolon, Comma}

ASSUME CookiesAssumption ==
    \A c \in Cookies :
        /\ c # <<>> /\ c[1] # Blank
        /\ \A i \in DOMAIN c : c[i] = Comma => DateBefore(c, i)
        /\ ~DateBefore(c, Len(c) + 1)

(* Cookies that a chunk joins by commas are sent one by one as they were   *)
(* (doc/RequestProcessing.md:117), each date keeping its comma.            *)
CookiesRight == cookies # <<>> => Unfold(Joined(cookies)) = cookies

(* A status is found if it is in the table, under its present name ...     *)
StatusRight ==
    LET known == {i \in DOMAIN lws_http_status : lws_http_status[i] = number}
    IN  FindHttpStatus(number) = IF known = {} THEN 0 ELSE Min(known)

(* ... and a table gets the least size that is large enough, if there is   *)
(* one.                                                                    *)
SizeRight ==
    LET large == {i \in DOMAIN lws_table_sizes : lws_table_sizes[i] >= number}
    IN  TableSize(number) = IF large = {} THEN -1 ELSE lws_table_sizes[Min(large)]

(* The searches in sorted tables find the first entry there is, at the     *)
(* ends of a table, between its entries and beyond it too.                 *)
LookupsRight == StatusRight /\ SizeRight

(* The sizes are those that the generator makes, and it makes them of the  *)
(* next prime, by trial of only some divisors up to the root.              *)
Divides(d, n) == n % d = 0

FirstPrime(n) == CHOOSE p \in n .. 2 * n + 2 :
                    /\ p > 1 /\ \A d \in 2 .. p - 1 : ~Divides(d, p)
                    /\ \A q \in n .. p - 1 : q < 2 \/ \E d \in 2 .. q - 1 : Divides(d, q)

SizesGenerated == /\ NextPrime[number] = FirstPrime(number)
                  /\ number = 1 => Primes(3, 21000) = lws_table_sizes
===============================================================================
