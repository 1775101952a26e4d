------------------------------ MODULE Decoders ------------------------------
(***************************************************************************)
(* What the client makes of the values in an answer (types.go, boot.go,    *)
(* client.go: updateRateLimit), and what it writes of them again.          *)
(*                                                                         *)
(* A scalar of JSON has a type and a text: the text of a number and of the *)
(* string that holds it are the same.  A text is a number (n halves), a    *)
(* number with a unit, a time, a word, or empty.  A uint64, a float64 and  *)
(* a port have the widths of the constants.                                *)
(***************************************************************************)
EXTENDS ClientLimits, Sequences, SequencesExt

CONSTANTS
  MaxUint,       \* the largest uint64
  KiB,           \* 1024
  FloatMax,      \* 2^53, from which a float64 has no odd numbers
  MaxPort,       \* the largest uint16
  Offset(_),     \* the hours by which Berlin is ahead, at an instant
  Threshold      \* from here a RateLimit-Reset is a time and not a delay

(* As many as the range of a uint64 needs.                                 *)
PowersOfTwo == {1, 2, 4, 8, 16, 32, 64, 128, 256, 512, 1024, 2048, 4096, 8192}

(* A uint64 has more digits than a float64, by 11 in the program.          *)
ASSUME DecodersAssumption ==
  /\ MaxUint \in Nat \ {0}
  /\ KiB \in PowersOfTwo
  /\ FloatMax \in Nat \ {0} /\ FloatMax % 2 = 0
  /\ \E p \in PowersOfTwo \cap 2..2048 : MaxUint + 1 = FloatMax * p
  /\ MaxPort \in Nat
  /\ Threshold \in Nat
  /\ Threshold * Second <= MaxInt

Text(form, n, unit) == [form |-> form, n |-> n, unit |-> unit]

Empty == Text("empty", 0, 0)

NumberText(n) == Text("number", 2 * n, 0)

String(text) == [type |-> "string", text |-> text]

Number(n) == [type |-> "number", text |-> NumberText(n)]

Null == [type |-> "null", text |-> Empty]

IsWhole(text) == text.form = "number" /\ text.n >= 0 /\ text.n % 2 = 0

(* What a decoder leaves in the receiver, and whether it succeeds.         *)
Decoded(value) == [ok |-> TRUE, value |-> value]

Undecoded(value) == [ok |-> FALSE, value |-> value]

-----------------------------------------------------------------------------
(***************************************************************************)
(* TrafficSize.  The number of a size becomes a float, which a             *)
(* multiplication by a power of two keeps, and then a uint64.              *)
(***************************************************************************)
Ulp(x) ==
  CHOOSE u \in PowersOfTwo : x < FloatMax * u /\ (u > 1 => x >= FloatMax * (u \div 2))

RoundToFloat(x) ==
  LET u == Ulp(x)
      low == (x \div u) * u
  IN  IF \/ 2 * (x - low) < u
         \/ 2 * (x - low) = u /\ (x \div u) % 2 = 0
      THEN low ELSE low + u

(* The conversion of a float that does not fit is left to the machine.     *)
ToUintNear(halves) ==
  IF halves > RoundToFloat(2 * MaxUint) THEN MaxUint ELSE (halves \div 2) % (MaxUint + 1)

ToUint(halves) ==
  IF halves >= RoundToFloat(2 * MaxUint) THEN MaxUint ELSE (halves \div 2) % (MaxUint + 1)

(* B, KB, MB, GB and TB.                                                   *)
Multiplier(unit) ==
  <<1, KiB, KiB * KiB, KiB * KiB * KiB, KiB * KiB * KiB * KiB>>[unit + 1]

(* A number beyond the float64 (ParseFloat fails, no bytes) is left out.   *)
TrafficBytes(text) ==
  IF text.form = "size" THEN ToUint(RoundToFloat(text.n) * Multiplier(text.unit))
  ELSE IF IsWhole(text) /\ text.n <= 2 * MaxUint THEN text.n \div 2
  ELSE 0

Traffic(bytes) == [unlimited |-> FALSE, bytes |-> bytes, raw |-> Empty]

NoTraffic == Traffic(0)

UnmarshalTrafficSize(prior, json) ==
  CASE json.type = "null" -> Decoded(NoTraffic)
    [] json.type = "string" ->
         Decoded([unlimited |-> json.text.form = "unlimited",
                  bytes |-> TrafficBytes(json.text), raw |-> json.text])
    [] json.type = "number" /\ IsWhole(json.text) /\ json.text.n <= 2 * MaxUint ->
         Decoded(Traffic(json.text.n \div 2))
    [] OTHER -> Undecoded(NoTraffic)

MarshalTrafficSizeBytes(v) == IF v.unlimited THEN String(Text("unlimited", 0, 0)) ELSE Number(v.bytes)

MarshalTrafficSize(v) ==
  IF v.raw # Empty THEN String(v.raw)
  ELSE IF v.unlimited THEN String(Text("unlimited", 0, 0))
  ELSE Number(v.bytes)

-----------------------------------------------------------------------------
(* StringFloat: an empty string is zero.  Encoding keeps four places, and  *)
(* of a number with more the one or the other neighbour.                   *)
UnmarshalStringFloatKeeps(prior, json) ==
  CASE json.type \in {"string", "number"} /\ json.text.form = "number" -> Decoded(json.text.n)
    [] json.type = "null" \/ json = String(Empty) -> Decoded(prior)
    [] OTHER -> Undecoded(0)

UnmarshalStringFloat(prior, json) ==
  CASE json.type \in {"string", "number"} /\ json.text.form = "number" -> Decoded(json.text.n)
    [] json.type = "null" \/ json = String(Empty) -> Decoded(0)
    [] OTHER -> Undecoded(0)

MarshalStringFloat(v) == {String(Text("number", n, 0)) : n \in {m \in v-1..v+1 : m % 2 = 0}}

UnmarshalFlexibleID(prior, json) ==
  IF json.type \in {"string", "number", "null"} THEN Decoded(json.text) ELSE Undecoded(Empty)

-----------------------------------------------------------------------------
(***************************************************************************)
(* BerlinTime.  An instant is a number of hours; "local" is the time on    *)
(* the wall in Berlin, which two instants show when the clock is set back, *)
(* and none when it is set forward: the library picks either, then uses    *)
(* the offset before or after.  "zoned" is a time with an offset of its    *)
(* own, the unit, which the value keeps.                                   *)
(***************************************************************************)
NoTime == [instant |-> 0, ahead |-> 0]

Instants(wall) ==
  LET exact == {t \in {wall - 1, wall - 2} : t + Offset(t) = wall}
  IN  IF exact # {} THEN exact ELSE {wall - 1, wall - 2}

UnmarshalBerlinTime(prior, json) ==
  CASE json.type = "null" -> {Decoded(NoTime)}
    [] json.type = "string" /\ json.text.form = "local" ->
         {Decoded([instant |-> t, ahead |-> Offset(t)]) : t \in Instants(json.text.n)}
    [] json.type = "string" /\ json.text.form = "zoned" ->
         {Decoded([instant |-> json.text.n - json.text.unit, ahead |-> json.text.unit])}
    [] OTHER -> {Undecoded(NoTime)}

MarshalBerlinTimeOwn(v) == String(Text("local", v.instant + v.ahead, 0))

MarshalBerlinTime(v) == String(Text("local", v.instant + Offset(v.instant), 0))

-----------------------------------------------------------------------------
(***************************************************************************)
(* ParsePortRange.  A specification is a list of parts between commas, a   *)
(* part a port, a range, empty or another word, perhaps with white space   *)
(* around it, which is allowed only in a list.                             *)
(***************************************************************************)
Part(form, start, end, spaced) == [form |-> form, start |-> start, end |-> end, spaced |-> spaced]

PortRange(start, end) == [start |-> start, end |-> end]

ParsePartInverted(part) ==
  CASE part.form = "empty" -> Decoded(<<>>)
    [] part.form = "port" /\ part.start <= MaxPort ->
         Decoded(<<PortRange(part.start, part.start)>>)
    [] part.form = "range" /\ part.start <= MaxPort /\ part.end <= MaxPort ->
         Decoded(<<PortRange(part.start, part.end)>>)
    [] OTHER -> Undecoded(<<>>)

ParsePart(part) ==
  CASE part.form = "empty" -> Decoded(<<>>)
    [] part.form = "port" /\ part.start <= MaxPort ->
         Decoded(<<PortRange(part.start, part.start)>>)
    [] part.form = "range" /\ part.end <= MaxPort /\ part.start <= part.end ->
         Decoded(<<PortRange(part.start, part.end)>>)
    [] OTHER -> Undecoded(<<>>)

ParsePortRange(spec) ==
  LET parsed == [i \in DOMAIN spec |-> ParsePart(spec[i])]
  IN  IF \/ Len(spec) = 1 /\ spec[1].spaced
         \/ \E i \in DOMAIN parsed : ~parsed[i].ok
      THEN Undecoded(<<>>)
      ELSE Decoded(FlattenSeq([i \in DOMAIN parsed |-> parsed[i].value]))

FormatPortRange(r) ==
  IF r.start = r.end THEN Part("port", r.start, 0, FALSE) ELSE Part("range", r.start, r.end, FALSE)

-----------------------------------------------------------------------------
(***************************************************************************)
(* Reset: its type is a list of words, or a word.  boot.go: a field that   *)
(* is a scalar when active and a list of choices when not.  Elements of a  *)
(* list that are null decode to the empty word, those of the wrong type    *)
(* are skipped among choices and fail a reset.                             *)
(***************************************************************************)
List(items) == [type |-> "array", items |-> items]

UnmarshalReset(prior, json) ==
  CASE json.type = "array" /\ \A i \in DOMAIN json.items : json.items[i].type \in {"string", "null"} ->
         Decoded([i \in DOMAIN json.items |-> json.items[i].text])
    [] json.type = "null" -> Decoded(<<>>)
    [] json.type = "string" -> Decoded(<<json.text>>)
    [] OTHER -> Undecoded(prior)

(* A float64 that becomes an int loses its fraction, towards zero.         *)
Truncated(text) ==
  IF text.form # "number" THEN text
  ELSE [text EXCEPT !.n = IF @ >= 0 THEN @ - (@ % 2) ELSE @ + (@ % 2)]

(* scalarString and scalarInt, and optionStrings and optionInts.           *)
ActiveScalar(type, zero, json) == IF json.type = type THEN Truncated(json.text) ELSE zero

OptionsOfAny(type, json) ==
  IF json.type # "array" THEN <<Truncated(json.text)>>
  ELSE [i \in DOMAIN json.items |-> Truncated(json.items[i].text)]

Options(type, json) ==
  IF json.type # "array" THEN <<>>
  ELSE FlattenSeq([i \in DOMAIN json.items |->
                     IF json.items[i].type = type THEN <<Truncated(json.items[i].text)>> ELSE <<>>])

-----------------------------------------------------------------------------
(* updateRateLimit: the moment that a RateLimit-Reset of n, seen at now,  *)
(* names.  The seconds of a delay are multiplied as an int64.              *)
RateLimitResetInclusive(n, now) ==
  IF n <= Threshold THEN now * Second + Wrap(n * Second) ELSE n * Second

RateLimitReset(n, now) ==
  IF n < Threshold THEN now * Second + Wrap(n * Second) ELSE n * Second
=============================================================================
