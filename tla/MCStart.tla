------------------------------ MODULE MCStart -------------------------------
(* Small files for the run of Start. *)
EXTENDS Start

Newline == "\n"
Trim == {"\t", "\r", "\n"}
\* Every file of up to four characters, for the lines and their blanks.
Short == {a \o b \o c \o d : a, b, c, d \in {"", "#", "=", "\t", "\n"}}

\* Pairs of lines, with and without a newline at the end.
Lines ==
  {"", " ", "#seeds=b", " #", "seeds=", "seeds=a,b", "SEEDS= c ", "seeds =c",
   "seeds\tb=", "seeds==", "seeds=a=b", "max_depth=07", "max_depth=-1x",
   "log_level=\t2\r", "load_module=m", "load_module=n ", "make_hostdir=Yes",
   "make_hostdir=n", "a", "=b", "logfile='l'", "#'", "\f#", "\tseeds=\fb\f\r"}

Pairs == {l \o "\n" \o m \o e : l, m \in Lines, e \in {"", "\n"}}

\* Modules loaded in any order, some of them twice, into one queue or two.
Load(names) == FoldLeft(LAMBDA f, m : f \o "load_module=" \o m \o "\n", "seeds=a\nmodule_path=p\n", names)

Loads ==
  {Load(s) : s \in UNION {[1 .. n -> {"h", "m", "n"}] : n \in 0 .. 3}}
    \cup {Load(s) : s \in [1 .. 4 -> {"m", "n"}]}
    \cup {Load(s) : s \in {<<"m", "n", "o", "m">>, <<"m", "n", "m", "o", "n">>,
                           <<"d", "m", "x">>, <<"o", "d", "o", "d">>}}

MCFiles == Short \cup Pairs \cup Loads
MCChars == Range(Chopped("#=\t\r\n\f '_-,0127DESYabcdefghijklmnopqrstuvwxyz"))

MCLibraries ==
  [lib \in {<<"p", m>> : m \in {"d", "h", "m", "n", "o"}} |->
     CASE lib[2] = "d" -> "pre_surl" [] lib[2] = "h" -> "post_header" [] OTHER -> "post_html"]
=============================================================================
