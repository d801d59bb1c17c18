------------------------------- MODULE Printf -------------------------------
(***************************************************************************)
(* printf of msvcrt: vfprintf_musl and printf_core of printlib, adapted    *)
(* from musl to the guest's calling convention, in which a long is as wide *)
(* as an int.  printf_core goes over the format twice: first to find the   *)
(* types of the arguments that are named by position, then to print.       *)
(*                                                                         *)
(* A format is a sequence of texts and directives, and one action handles  *)
(* one of them.  An integer type is the number of its values: a short has  *)
(* two chars, an int four, and a long long eight, which is what the slot   *)
(* of an argument holds.  A pointer is a number that stands for a string.  *)
(* Characters are their code points.  Floating point, wide strings and %m  *)
(* are left out.                                                           *)
(***************************************************************************)
EXTENDS Integers, Sequences

CONSTANTS
  CharValues, \* of a char; 256 in the code
  PtrDigits,  \* hexadecimal digits of a pointer; 16 in the code
  Forms,     \* formats
  SlotLists, \* what is passed: sequences of slots
  Strings,   \* what pointers lead to; 0 is NULL
  Garbage    \* what memory nobody has written may hold

CHAR == CharValues
SHORT == CHAR * CHAR
INT == SHORT * SHORT
LLONG == INT * INT
MaxInt == INT \div 2 - 1
Slot == 0..(LLONG - 1)

(* A directive has the position of its argument, or Next; flags; a width   *)
(* and a precision, from digits or from an argument; the letters of its    *)
(* length; and its conversion.                                             *)
InOrder == -1
Position == 0..9
Amount ==
  [from : {"none"}] \cup [from : {"digits"}, n : Nat] \cup [from : {"arg"}, pos : Position \cup {InOrder}]
Directive ==
  [pos : Position \cup {InOrder}, flags : SUBSET {"-", "0", "+", " ", "#"},
   width : Amount, prec : Amount, length : Seq({"h", "l", "j", "z", "t", "L"}),
   conv : {"d", "i", "o", "u", "x", "X", "p", "c", "s", "n", "?"}]
Literal == [text : Seq(Nat) \ {<<>>}]
IsText(x) == DOMAIN x = {"text"}

ASSUME PrintfAssumption ==
  /\ CharValues \in Nat \ {0} /\ CharValues % 2 = 0 /\ PtrDigits \in Nat
  /\ Forms \subseteq Seq(Literal \cup Directive)
  /\ SlotLists \subseteq Seq(Slot) /\ Garbage \subseteq Slot /\ Garbage # {}
  /\ 0 \notin DOMAIN Strings /\ \A p \in DOMAIN Strings : Strings[p] \in Seq(Nat)

VARIABLES
  form,      \* the format
  slots,     \* what was passed
  pass,      \* "types" with no file, "print", "done"
  item,      \* the next item of the format
  l10n,      \* whether an argument was named by its position
  nlType,    \* types of the arguments by position, or None
  nlArg,     \* the arguments by position
  used,      \* slots taken
  cnt,       \* characters printed, as printf_core counts them
  out,       \* and what they are
  stores,    \* what %n has stored
  ret        \* what the call returns

printfVars == <<form, slots, pass, item, l10n, nlType, nlArg, used, cnt, out, stores, ret>>

None == "none"
Greater(a, b) == IF a > b THEN a ELSE b
Lesser(a, b) == IF a < b THEN a ELSE b
Times(c, n) == [k \in 1..n |-> c]
-----------------------------------------------------------------------------
(* The state machine of lengths and conversions, and what each type pops.  *)
Prefix(length) ==
  CASE length = <<>> -> "BARE"
    [] length = <<"l">> -> "LPRE"  [] length = <<"l", "l">> -> "LLPRE"
    [] length = <<"h">> -> "HPRE"  [] length = <<"h", "h">> -> "HHPRE"
    [] length = <<"L">> -> "BIGLPRE"
    [] length \in {<<"z">>, <<"t">>} -> "ZTPRE"  [] length = <<"j">> -> "JPRE"
    [] OTHER -> None

SignedTypes ==
  [BARE |-> "INT", LPRE |-> "LONG", LLPRE |-> "LLONG", HPRE |-> "SHORT", HHPRE |-> "CHAR",
   ZTPRE |-> "PDIFF", JPRE |-> "IMAX"]
UnsignedTypes ==
  [BARE |-> "UINT", LPRE |-> "ULONG", LLPRE |-> "ULLONG", HPRE |-> "USHORT", HHPRE |-> "UCHAR",
   ZTPRE |-> "SIZET", JPRE |-> "UMAX"]

Type(d) ==
  LET p == Prefix(d.length)
  IN CASE d.conv \in {"d", "i"} /\ p \in DOMAIN SignedTypes -> SignedTypes[p]
       [] d.conv \in {"o", "u", "x", "X"} /\ p \in DOMAIN UnsignedTypes -> UnsignedTypes[p]
       [] d.conv = "c" /\ p = "BARE" -> "CHAR"
       [] d.conv = "s" /\ p = "BARE" -> "PTR"
       [] d.conv = "p" /\ p = "BARE" -> "UIPTR"
       [] d.conv = "n" /\ p # None -> "PTR"
       [] OTHER -> None

(* The lowest of a slot, as a type with a sign, in a uintmax_t.            *)
Extended(slot, type) ==
  IF slot % type < type \div 2 THEN slot % type ELSE LLONG - type + (slot % type)

PopArg_WideLong(type, slot) ==
  CASE type = "INT" -> Extended(slot, INT)
    [] type = "UINT" -> slot % INT
    [] type = "SHORT" -> Extended(slot, SHORT)
    [] type = "USHORT" -> slot % SHORT
    [] type = "CHAR" -> Extended(slot, CHAR)
    [] type = "UCHAR" -> slot % CHAR
    [] OTHER -> slot

PopArg(type, slot) ==
  CASE type \in {"INT", "LONG"} -> Extended(slot, INT)
    [] type \in {"UINT", "ULONG"} -> slot % INT
    [] type = "SHORT" -> Extended(slot, SHORT)
    [] type = "USHORT" -> slot % SHORT
    [] type = "CHAR" -> Extended(slot, CHAR)
    [] type = "UCHAR" -> slot % CHAR
    [] OTHER -> slot

(* An int out of a uintmax_t.                                              *)
ToInt(n) ==
  LET low == n % INT IN IF low <= MaxInt THEN low ELSE low - INT
-----------------------------------------------------------------------------
(* What one directive takes.  A position makes l10n true, and after that   *)
(* no width or precision can be taken in order.                            *)
Star(amount) == amount.from = "arg" /\ amount.pos = InOrder
Named(amount) == amount.from = "arg" /\ amount.pos # InOrder
Named1(d) == l10n \/ d.pos # InOrder
Named2(d) == Named1(d) \/ Named(d.width)

Refused(d) ==
  \/ d.width.from = "digits" /\ d.width.n > MaxInt
  \/ Star(d.width) /\ Named1(d)
  \/ Star(d.prec) /\ Named2(d)
  \/ Type(d) = None

(* Slots are taken in order: of the width, the precision, the argument.    *)
InWidth(d) == IF Star(d.width) THEN 1 ELSE 0
InAmounts(d) == InWidth(d) + (IF Star(d.prec) THEN 1 ELSE 0)
InAll(d) == InAmounts(d) + (IF d.pos = InOrder THEN 1 ELSE 0)

Pops(type, n) ==
  {PopArg(type, slot) : slot \in IF n \in DOMAIN slots THEN {slots[n]} ELSE Garbage}

Ints(amount, n) ==
  CASE amount.from = "none" -> {-1}
    [] amount.from = "digits" -> {IF amount.n <= MaxInt THEN amount.n ELSE -1}
    [] Star(amount) -> {ToInt(x) : x \in Pops("INT", n)}
    [] Named(amount) -> {ToInt(nlArg[amount.pos])}

Widths(d) == IF d.width.from = "none" THEN {0} ELSE Ints(d.width, used + 1)
Precs(d) == Ints(d.prec, used + InWidth(d) + 1)
Values(d) == IF d.pos # InOrder THEN {nlArg[d.pos]} ELSE Pops(Type(d), used + InAll(d))

Types(d) ==
  [i \in Position |->
     IF i = d.pos THEN Type(d)
     ELSE IF (Named(d.width) /\ i = d.width.pos) \/ (Named(d.prec) /\ i = d.prec.pos) THEN "INT"
     ELSE nlType[i]]
-----------------------------------------------------------------------------
(* What is printed of a value v: digits, the prefix before them, and the   *)
(* padding of the two to a precision p and a width w.                      *)
Digits(n, base, ten) ==
  LET digit(x) == IF x < 10 THEN 48 + x ELSE ten + x - 10
      digits[m \in 0..n] == IF m = 0 THEN <<>> ELSE Append(digits[m \div base], digit(m % base))
  IN digits[n]

Negative(conv, v) == conv \in {"d", "i"} /\ v >= LLONG \div 2
Minus(v) == LLONG - v

Body(conv, v) ==
  CASE conv \in {"x", "p"} -> Digits(v, 16, 97)
    [] conv = "X" -> Digits(v, 16, 65)
    [] conv = "o" -> Digits(v, 8, 97)
    [] conv \in {"d", "i", "u"} -> Digits(IF Negative(conv, v) THEN Minus(v) ELSE v, 10, 97)
    [] conv = "c" -> <<v % CHAR>>
    [] conv = "s" -> IF v = 0 THEN <<40, 110, 117, 108, 108, 41>> ELSE Strings[v]

Before(conv, fl, v) ==
  CASE conv \in {"x", "X", "p"} /\ v # 0 /\ (conv = "p" \/ "#" \in fl) -> <<48, IF conv = "X" THEN 88 ELSE 120>>
    [] Negative(conv, v) -> <<45>>
    [] conv \in {"d", "i"} /\ ~ Negative(conv, v) /\ "+" \in fl -> <<43>>
    [] conv \in {"d", "i"} /\ ~ Negative(conv, v) /\ "+" \notin fl /\ " " \in fl -> <<32>>
    [] OTHER -> <<>>

IsNumber(conv) == conv \notin {"c", "s"}

Asked(conv, fl, p, n) ==
  CASE conv = "o" /\ "#" \in fl -> Greater(p, n + 1)
    [] conv = "p" /\ p >= 0 -> Greater(p, PtrDigits)
    [] OTHER -> p

MinDigits(conv, fl, p, v, n) ==
  LET q == Asked(conv, fl, p, n)
  IN IF v = 0 /\ q = 0 THEN 0 ELSE Greater(q, IF v = 0 THEN n + 1 ELSE n)

(* A field of body with the prefix, of at least q digits and w characters. *)
Padded_ZeroFirst(before, body, q, w, fl) ==
  LET zeros == Times(48, Greater(0, q - Len(body)))
      rest == Greater(0, w - Len(before) - Greater(q, Len(body)))
  IN (IF "-" \in fl THEN <<>> ELSE Times(IF "0" \in fl THEN 48 ELSE 32, rest))
       \o before \o zeros \o body \o (IF "-" \in fl THEN Times(32, rest) ELSE <<>>)

Padded(before, body, q, w, fl) ==
  LET zeros == Times(48, Greater(0, q - Len(body)))
      rest == Greater(0, w - Len(before) - Greater(q, Len(body)))
  IN (IF fl \cap {"-", "0"} = {} THEN Times(32, rest) ELSE <<>>)
       \o before \o (IF "0" \in fl THEN Times(48, rest) ELSE <<>>)
       \o zeros \o body \o (IF "-" \in fl THEN Times(32, rest) ELSE <<>>)

Field(d, w, p, v) ==
  LET number == IsNumber(d.conv)
      xp == d.prec.from = "digits" \/ (d.prec.from = "arg" /\ p >= 0)
      left == IF w < 0 THEN d.flags \cup {"-"} ELSE d.flags
      fl == IF "-" \in left \/ ~ number \/ xp THEN left \ {"0"} ELSE left
      all == Body(d.conv, v)
      body == IF d.conv = "s" /\ p >= 0 THEN SubSeq(all, 1, Lesser(p, Len(all))) ELSE all
      before == Before(d.conv, fl, v)
      q == IF number THEN MinDigits(d.conv, fl, p, v, Len(body)) ELSE Len(body)
      total == Len(before) + Greater(q, Len(body))
      width == IF w = -MaxInt - 1 THEN 0 ELSE IF w < 0 THEN -w ELSE w
  IN [overflows |-> \/ number /\ xp /\ p < 0
                    \/ Greater(width, total) > MaxInt - cnt,
      chars |-> Padded(before, body, q, width, fl)]
-----------------------------------------------------------------------------
(* The handlers of the two passes.                                         *)
Running == pass \in {"types", "print"} /\ item <= Len(form)

Fail ==
  /\ ret' = -1 /\ pass' = "done"
  /\ UNCHANGED <<form, slots, item, l10n, nlType, nlArg, used, cnt, out, stores>>

Prints(chars) ==
  /\ cnt' = cnt + Len(chars)
  /\ out' = IF pass = "print" THEN out \o chars ELSE out
  /\ item' = item + 1
  /\ UNCHANGED <<form, slots, pass, nlArg, stores, ret>>

LiteralText ==
  /\ Running /\ IsText(form[item])
  /\ IF Len(form[item].text) > MaxInt - cnt THEN Fail
     ELSE Prints(form[item].text) /\ UNCHANGED <<l10n, nlType, used>>

(* From the first pass to the second, which starts anew.                   *)
StartPrinting ==
  /\ pass' = "print" /\ item' = 1 /\ cnt' = 0 /\ l10n' = FALSE
  /\ UNCHANGED <<form, slots, out, stores, ret>>

(* An argument that is taken in order ends the first pass at once.         *)
NoteTypes ==
  /\ Running /\ pass = "types" /\ ~ IsText(form[item])
  /\ LET d == form[item]
     IN IF Refused(d) THEN Fail
        ELSE /\ nlType' = Types(d)
             /\ IF d.pos = InOrder THEN StartPrinting /\ UNCHANGED <<nlArg, used>>
                ELSE /\ item' = item + 1 /\ l10n' = TRUE
                     /\ UNCHANGED <<form, slots, pass, nlArg, used, cnt, out, stores, ret>>

(* The arguments that have a type are popped, up to the first gap; nothing *)
(* may come after that.                                                    *)
LastTyped == CHOOSE n \in 0..9 : (\A i \in 1..n : nlType[i] # None) /\ (n < 9 => nlType[n + 1] = None)

TypesEnd ==
  /\ pass = "types" /\ item > Len(form)
  /\ IF ~ l10n THEN StartPrinting /\ UNCHANGED <<nlType, nlArg, used>>
     ELSE IF \E i \in (LastTyped + 1)..9 : nlType[i] # None THEN Fail
     ELSE /\ \E g \in Garbage :
               nlArg' = [i \in Position |->
                           IF i \notin 1..LastTyped THEN nlArg[i]
                           ELSE PopArg(nlType[i], IF i \in DOMAIN slots THEN slots[i] ELSE g)]
          /\ used' = LastTyped
          /\ StartPrinting /\ UNCHANGED nlType

(* %n stores the count, as a long of the host where a long is asked for.   *)
StoredAs_WideShort ==
  [BARE |-> INT, LPRE |-> LLONG, LLPRE |-> LLONG, HPRE |-> INT, HHPRE |-> CHAR,
   ZTPRE |-> LLONG, JPRE |-> LLONG]

StoredAs ==
  [BARE |-> INT, LPRE |-> LLONG, LLPRE |-> LLONG, HPRE |-> SHORT, HHPRE |-> CHAR,
   ZTPRE |-> LLONG, JPRE |-> LLONG]
Stored(d, at) ==
  LET p == Prefix(d.length)
  IN IF p \notin DOMAIN StoredAs THEN <<>>
     ELSE <<[to |-> at, type |-> StoredAs[p], value |-> cnt % StoredAs[p]]>>

Emit(d, w, p, v) ==
  CASE d.conv = "n" ->
         /\ stores' = stores \o Stored(d, v) /\ item' = item + 1
         /\ UNCHANGED <<form, slots, pass, nlArg, cnt, out, ret>>
    [] d.conv = "s" /\ v \notin {0} \cup DOMAIN Strings ->
         /\ pass' = "lost"
         /\ UNCHANGED <<form, slots, item, nlArg, cnt, out, stores, ret>>
    [] OTHER -> Prints(Field(d, w, p, v).chars)

PrintDirective ==
  /\ Running /\ pass = "print" /\ ~ IsText(form[item])
  /\ LET d == form[item]
     IN IF Refused(d) THEN Fail
        ELSE \E w \in Widths(d), p \in Precs(d), v \in Values(d) :
               IF d.conv # "n" /\ (d.conv = "s" => v \in {0} \cup DOMAIN Strings) /\ Field(d, w, p, v).overflows
               THEN Fail
               ELSE /\ Emit(d, w, p, v)
                    /\ l10n' = Named2(d) /\ nlType' = Types(d) /\ used' = used + InAll(d)

PrintEnds ==
  /\ pass = "print" /\ item > Len(form)
  /\ ret' = cnt /\ pass' = "done"
  /\ UNCHANGED <<form, slots, item, l10n, nlType, nlArg, used, cnt, out, stores>>

PrintfInit ==
  /\ form \in Forms /\ slots \in SlotLists
  /\ pass = "types" /\ item = 1 /\ l10n = FALSE /\ used = 0
  /\ nlType = [i \in Position |-> None] /\ \E g \in Garbage : nlArg = [i \in Position |-> g]
  /\ cnt = 0 /\ out = <<>> /\ stores = <<>> /\ ret = 0

PrintfNext == LiteralText \/ NoteTypes \/ TypesEnd \/ PrintDirective \/ PrintEnds

PrintfSpec == PrintfInit /\ [][PrintfNext]_printfVars
-----------------------------------------------------------------------------
(* The reference: what C says a directive prints.                          *)
Dirs == {k \in DOMAIN form : ~ IsText(form[k])}

CType(type) ==
  CASE type \in {"INT", "LONG", "UINT", "ULONG"} -> INT
    [] type \in {"SHORT", "USHORT"} -> SHORT
    [] type \in {"CHAR", "UCHAR"} -> CHAR
    [] OTHER -> LLONG
SignedRead(slot, type) ==
  IF slot % type < type \div 2 THEN slot % type ELSE (slot % type) - type
CValue(d, slot) ==
  IF d.conv \in {"d", "i"} THEN SignedRead(slot, CType(Type(d))) ELSE slot % CType(Type(d))

(* The slots taken by the items before one: the first of its own is next.  *)
FirstSlot ==
  LET before[k \in 1..(Len(form) + 1)] ==
        IF k = 1 THEN 0 ELSE before[k - 1] + (IF (k - 1) \in Dirs THEN InAll(form[k - 1]) ELSE 0)
  IN before
CWidth(k) ==
  CASE form[k].width.from = "none" -> 0
    [] form[k].width.from = "digits" -> form[k].width.n
    [] Star(form[k].width) -> SignedRead(slots[FirstSlot[k] + 1], INT)
    [] Named(form[k].width) -> SignedRead(slots[form[k].width.pos], INT)
CPrec(k) ==
  CASE form[k].prec.from = "none" -> -1
    [] form[k].prec.from = "digits" -> form[k].prec.n
    [] Star(form[k].prec) -> SignedRead(slots[FirstSlot[k] + InWidth(form[k]) + 1], INT)
    [] Named(form[k].prec) -> SignedRead(slots[form[k].prec.pos], INT)
CSlot(k) == slots[IF form[k].pos = InOrder THEN FirstSlot[k] + InAll(form[k]) ELSE form[k].pos]

Magnitude(n) == IF n < 0 THEN -n ELSE n
CDigits(d, n, p) ==
  LET base == CASE d.conv \in {"x", "X", "p"} -> 16 [] d.conv = "o" -> 8 [] OTHER -> 10
      least == Digits(Magnitude(n), base, IF d.conv = "X" THEN 65 ELSE 97)
      digits == Times(48, Greater(0, (IF p < 0 THEN 1 ELSE p) - Len(least))) \o least
  IN IF d.conv = "o" /\ "#" \in d.flags /\ (digits = <<>> \/ digits[1] # 48) THEN <<48>> \o digits ELSE digits

CSign(d, n) ==
  CASE d.conv \in {"d", "i"} ->
         (IF n < 0 THEN <<45>> ELSE IF "+" \in d.flags THEN <<43>> ELSE IF " " \in d.flags THEN <<32>> ELSE <<>>)
    [] n # 0 /\ (d.conv = "p" \/ (d.conv \in {"x", "X"} /\ "#" \in d.flags)) -> <<48, IF d.conv = "X" THEN 88 ELSE 120>>
    [] OTHER -> <<>>

CPrecise(d, prec) == IF d.conv = "p" /\ prec >= 0 THEN Greater(prec, PtrDigits) ELSE prec
CWhole(d, p, n) ==
  CASE d.conv = "c" -> <<n>>
    [] d.conv = "s" -> (IF p < 0 THEN Body("s", n) ELSE SubSeq(Body("s", n), 1, Lesser(p, Len(Body("s", n)))))
    [] OTHER -> CSign(d, n) \o CDigits(d, n, p)
CShown(d, w, prec, n) ==
  LET p == CPrecise(d, prec)
      whole == CWhole(d, p, n)
      room == Greater(0, Magnitude(w) - Len(whole))
  IN CASE w < 0 \/ "-" \in d.flags -> whole \o Times(32, room)
       [] IsNumber(d.conv) /\ "0" \in d.flags /\ p < 0 /\ w >= 0 /\ "-" \notin d.flags ->
            CSign(d, n) \o Times(48, room) \o CDigits(d, n, p)
       [] OTHER -> Times(32, room) \o whole
CField(k) == CShown(form[k], CWidth(k), CPrec(k), CValue(form[k], CSlot(k)))

Shows(k) ==
  IF IsText(form[k]) THEN form[k].text ELSE IF form[k].conv = "n" THEN <<>> ELSE CField(k)
Concat(parts) ==
  LET upTo[j \in 0..Len(form)] == IF j = 0 THEN <<>> ELSE upTo[j - 1] \o parts[j] IN upTo
Printout(k) == Concat([j \in DOMAIN form |-> Shows(j)])[k]

(* The integer a guest has for %n, by the length: its long is an int.  A   *)
(* %ln is the exception that the code makes: the host's long is stored,    *)
(* over as much memory behind the guest's.                                 *)
CInteger(length) ==
  CASE length = <<"h">> -> SHORT [] length = <<"h", "h">> -> CHAR
    [] length \in {<<>>, <<"l">>} -> INT [] OTHER -> LLONG
CStored(length) == IF length = <<"l">> THEN LLONG ELSE CInteger(length)
CStore(k) ==
  IF k \in Dirs /\ form[k].conv = "n" /\ Prefix(form[k].length) # "BIGLPRE"
  THEN <<[to |-> CSlot(k), count |-> Len(Printout(k)), type |-> CStored(form[k].length)]>> ELSE <<>>
CStores == Concat([j \in DOMAIN form |-> CStore(j)])[Len(form)]

(* A call C allows: no argument in order next to one named by position,    *)
(* each passed, each position with one type and no position left out.      *)
InOrderUse(d) == d.pos = InOrder /\ ~ Named(d.width) /\ ~ Named(d.prec)
NamedUse(d) == d.pos > 0 /\ ~ Star(d.width) /\ ~ Star(d.prec)
NamedAs(d) ==
  {[pos |-> d.pos, type |-> Type(d)]} \cup {[pos |-> a.pos, type |-> "INT"] : a \in {b \in {d.width, d.prec} : Named(b)}}
NamedTypes == UNION {NamedAs(form[k]) : k \in Dirs}

Allowed ==
  /\ \A k \in Dirs : Type(form[k]) # None
  /\ \/ /\ \A k \in Dirs : InOrderUse(form[k])
        /\ FirstSlot[Len(form) + 1] <= Len(slots)
     \/ /\ \A k \in Dirs : NamedUse(form[k])
        /\ \A a, b \in NamedTypes : a.pos = b.pos => a = b
        /\ \E n \in 0..Len(slots) : {a.pos : a \in NamedTypes} = 1..n
  /\ \A k \in Dirs : form[k].conv = "s" => CSlot(k) \in {0} \cup DOMAIN Strings
  /\ \A k \in Dirs : CWidth(k) \in (-MaxInt)..MaxInt /\ CPrec(k) <= MaxInt

(* Such a call prints what it should, counts it and stores the count where *)
(* %n asks for it, in an integer as wide as the guest has there, unless    *)
(* that is a long; or what it prints is more than an int can count, and it *)
(* fails.                                                                  *)
PrintedExactly ==
  pass = "done" /\ Allowed =>
    IF Len(Printout(Len(form))) > MaxInt THEN ret = -1
    ELSE /\ ret = cnt /\ cnt = Len(out) /\ out = Printout(Len(form))
         /\ Len(stores) = Len(CStores)
         /\ \A k \in DOMAIN stores :
              /\ stores[k].to = CStores[k].to /\ stores[k].type = CStores[k].type
              /\ stores[k].value = CStores[k].count % CStores[k].type

(* If all arguments are named by position, a format that is refused is     *)
(* refused before anything is printed.                                     *)
RefusedFirst ==
  ret = -1 /\ out # <<>> =>
    \/ \E k \in Dirs : form[k].pos = InOrder
    \/ \A k \in Dirs : Type(form[k]) # None

PrintfExact == PrintedExactly /\ RefusedFirst
=============================================================================
