-------------------------- MODULE MCRowProjection --------------------------
(***************************************************************************)
(* One column of each kind of type, and texts that read as their type or    *)
(* not, a float of 17 digits among them; the three kinds of projection,     *)
(* with a computed id.                                                      *)
(***************************************************************************)
EXTENDS RowProjection

MCColumns == {"id", "n", "amount", "flag", "at", "tags", "code"}
MCPgType == [id |-> "text", n |-> "int8", amount |-> "float8", flag |-> "bool",
             at |-> "timestamptz", tags |-> "jsonb", code |-> "bpchar"]

MCRawRows ==
  [id : {Raw("text", "x")},
   n : {Raw("int", "5"), SqlNull},
   amount : {Raw("float", "1.50"), Raw("float", "31.245270191439438"), Raw("text", "NaN")},
   flag : {Raw("bool", "t"), Raw("bool", "f")},
   at : {Stamp("d", 0, "+00"), Stamp("d", 3, "+02"), Raw("text", "infinity")},
   tags : {Raw("array", "[31.245270191439438]"), Raw("int", "7")},
   code : {Raw("padded", "c")}]

MCPrinted == "1.50" :> "1.5"
MCReread == "1.50" :> "1.5" @@ "31.245270191439438" :> "31.24527019143944"
              @@ "[31.245270191439438]" :> "[31.24527019143944]"

Term(column) == [column |-> column, literal |-> SqlNull]
Literal(v) == [column |-> "", literal |-> Raw("text", v)]
Item(alias, terms) == [alias |-> alias, terms |-> terms]

MCProjections ==
  {[kind |-> "star", items |-> <<>>],
   [kind |-> "computed", items |-> <<Item("id", <<Term("id"), Literal("-"), Term("n")>>),
                                     Item("label", <<Term("id"), Term("flag")>>)>>],
   [kind |-> "columns", items |-> <<Item("id", <<Term("id")>>), Item("when", <<Term("at")>>),
                                    Item("tags", <<Term("tags")>>)>>],
   [kind |-> "columns", items |-> <<Item("id", <<Term("n")>>), Item("flag", <<Term("flag")>>),
                                    Item("amount", <<Term("amount")>>)>>]}
=============================================================================
