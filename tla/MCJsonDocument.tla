---------------------------- MODULE MCJsonDocument ----------------------------
(* An instance of JsonDocument for TLC.                                    *)
EXTENDS JsonDocument

\* What IEEE 754 makes of 1.5, 0.1, minus zero and infinity.
MCIeee ==
    {[float |-> [neg |-> FALSE, digits |-> <<1, 5>>, exp |-> 1], half |-> <<62, 0>>,
      single |-> <<63, 192, 0, 0>>, double |-> <<63, 248, 0, 0, 0, 0, 0, 0>>],
     [float |-> [neg |-> FALSE, digits |-> <<1>>, exp |-> 0], half |-> <<>>,
      single |-> <<>>, double |-> <<63, 185, 153, 153, 153, 153, 153, 154>>],
     [float |-> ZeroDouble(TRUE), half |-> <<128, 0>>,
      single |-> <<128, 0, 0, 0>>, double |-> <<128, 0, 0, 0, 0, 0, 0, 0>>],
     [float |-> ZeroDouble(FALSE), half |-> <<0, 0>>,
      single |-> <<0, 0, 0, 0>>, double |-> <<0, 0, 0, 0, 0, 0, 0, 0>>],
     [float |-> Infinity(FALSE), half |-> <<124, 0>>,
      single |-> <<127, 128, 0, 0>>, double |-> <<127, 240, 0, 0, 0, 0, 0, 0>>]}

Chars(s) == Ascii(s)
One == UnsignedInt(Word(1))
Half == Float([neg |-> FALSE, digits |-> <<1, 5>>, exp |-> 1])

\* Structure, numbers, numbers at the end of the range of a double, zero bytes,
\* and the inside of strings: escapes, UTF-8 of up to
\* four bytes and what looks like it.
MCAlphabets ==
    {[begin |-> <<>>, max |-> 4,
      fragments |-> {Chars("{"), Chars("}"), Chars("["), Chars("]"), Chars(","), Chars(":"),
                     Chars("\"a\""), Chars("1")}],
     [begin |-> <<>>, max |-> 5,
      fragments |-> {Chars("{\"a\":"), Chars("{}"), Chars(",\"b\":1"), Chars("}"),
                     Chars("["), Chars("]")}],
     [begin |-> <<>>, max |-> 4,
      fragments |-> {Chars("0"), Chars("1"), Chars("-"), Chars("+"), Chars("."), Chars("e")}],
     [begin |-> <<>>, max |-> 4,
      fragments |-> {Chars("0"), Chars("1"), Chars("8"), Chars("."), Chars("e308"), Chars("-")}],
     [begin |-> <<>>, max |-> 4,
      fragments |-> {<<0>>, Chars("["), Chars("]"), Chars("1"), Chars("\""), Chars(",")}],
     [begin |-> Chars("\""), max |-> 3,
      fragments |-> {Chars("\""), Chars("\\"), Chars("\\u00"), Chars("e9"), Chars("\\ud834"),
                     Chars("\\udd1e"), <<195>>, <<169>>, <<237, 160>>, <<240, 157, 132>>, <<9>>}]}

\* Numbers on both sides of each width.
Numbers ==
    {UnsignedInt(w) : w \in
        {Word(23), Word(24), Word(127), Word(128), Word(255), Word(256), Word(32767),
         Word(32768), Word(65535), Word(65536), Word(2147483647),
         <<0, 0, 0, 0, 128, 0, 0, 0>>, <<0, 0, 0, 1, 0, 0, 0, 0>>,
         <<127, 255, 255, 255, 255, 255, 255, 255>>, Ones}}
    \cup
    {Integer(Negate(w)) : w \in
        {Word(1), Word(24), Word(25), Word(32), Word(33), Word(128), Word(129), Word(256),
         Word(257), Word(32768), Word(32769), <<0, 0, 0, 0, 128, 0, 0, 0>>,
         <<0, 0, 0, 0, 128, 0, 0, 1>>, <<128, 0, 0, 0, 0, 0, 0, 0>>}}

\* Strings, binaries, arrays and objects around the lengths that have a form
\* of their own.
Times(n, x) == [i \in 1..n |-> x]
Lengths ==
    {String(Times(n, 65)) : n \in {0, 15, 23, 24, 31, 32, 255, 256}}
    \cup {Binary(Times(n, 65), s) : n \in {0, 1, 2, 3, 16, 256}, s \in {-1, 7}}
    \cup {Array(Times(n, One)) : n \in {15, 16, 23, 24}}
    \cup {Object([k \in {Times(i, 97) : i \in 1..n} |-> Null]) : n \in {15, 16, 24}}

\* Small documents, which are changed.
MCDrafts ==
    {Null, Boolean(TRUE), String(Chars("a~/")), Half,
     Array(<<One, One, Half>>), Array(<<Array(<<>>), Null>>),
     Object((Chars("a") :> One) @@ (Chars("0") :> Object(<<>>))),
     Object((Chars("a") :> Object(Chars("a~/") :> One)) @@ (Chars("b") :> Array(<<Null, One>>)))}

\* Strings that are not UTF-8: overlong, a surrogate, cut short or a lone byte.
IllFormed == {String(s) : s \in {<<195>>, <<195, 65>>, <<65, 128>>, <<192, 128>>, <<237, 160, 128>>,
                                 <<240, 157, 132>>, <<240, 157, 132, 34>>, <<255>>, <<244, 144, 128, 128>>}}

MCSamples == IllFormed \cup Numbers \cup Lengths \cup
    {Float(f.float) : f \in MCIeee}
    \cup {Array(<<x, y>>) : x \in Numbers, y \in {Integer(Ones), Half}}

MCNames == {Chars("a"), Chars("a~/")}
MCAdditions == {Boolean(FALSE), Array(<<One, Null>>), Object(Chars("a") :> Object(Chars("b") :> Half))}

Op(name, path) == (opName :> String(Chars(name))) @@ (pathName :> String(Chars(path)))
WithFrom(o, path) == Object(o @@ (fromName :> String(Chars(path))))
MCOperations ==
    {WithValue(Op("add", p), Half) : p \in {"", "/a", "/0", "/-", "/b/1", "/a/a"}}
    \cup {Object(Op("remove", p)) : p \in {"", "/a", "/1", "/a/a~0~1"}}
    \cup {WithValue(Op("replace", "/a"), Half), WithValue(Op("test", "/0"), One)}
    \cup {WithFrom(Op("move", "/0"), "/a"), WithFrom(Op("move", "/a/a"), "/a"),
          WithFrom(Op("copy", "/b/-"), "/a")}
MCMerges == {Object((Chars("a") :> Null) @@ (Chars("b") :> Object((Chars("c") :> Null) @@ (Chars("d") :> One)))),
             Array(<<Null>>), Object(Chars("a") :> Object(Chars("a~/") :> Null))}

Callback(event, depths) == [event |-> event, depths |-> depths, keys |-> {Chars("a")}]
MCCallbacks == {Callback("none", {})} \cup {Callback("key", {n}) : n \in {1, 2}}
    \cup {Callback(event, {n}) : event \in {"object_start", "object_end"}, n \in {0, 1, 2}}

MCRefTokens == {Chars("a"), Chars("~1/"), Chars("0"), Chars("1"), Chars("01"), Chars("-"), <<>>,
                Chars("18446744073709551615"), Chars("18446744073709551616")}
MCSettings == [pretty : BOOLEAN, ascii : BOOLEAN, step : {2}, handler : {"strict"}]
              \cup [pretty : {FALSE}, ascii : BOOLEAN, step : {2}, handler : {"replace", "ignore"}]
=============================================================================
