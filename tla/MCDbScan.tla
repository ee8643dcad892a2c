------------------------------ MODULE MCDbScan ------------------------------
EXTENDS DbScan

\* Two columns have the same name; the second one counts.  One has no name, and
\* no field takes it.
MCColumns == <<"n", "n", "s", "">>

MCStored ==
  <<{Value("int64", 0)},
    {Nil, Value("int64", -3), Value("int64", -1), Value("int64", 3),
     Value("bytes", -2), Value("bytes", 2), Value("bytes", 3),
     Value("bytes", 8), Value("float64", 1)},
    {Nil, Value("bytes", NotANumber), Value("bytes", 1), Value("time", 0),
     Value("bool", 1)},
    {Value("int64", 1)}>>

Field(tag, kind) == [tag |-> tag, kind |-> kind, exported |-> TRUE]

MCFields ==
  <<Field("n", "int8"), Field("n", "int64"), Field("n", "float64"),
    Field("n", "uint64"), Field("n", "uint8"), Field("s", "string"),
    Field("s", "int8"), Field("missing", "string"),
    Field("", "int64"),
    [tag |-> "n", kind |-> "int64", exported |-> FALSE]>>
=============================================================================
