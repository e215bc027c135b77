---------------------------- MODULE BuildMatrix ----------------------------
(***************************************************************************)
(* The build matrix of a request: how a command line and a query become    *)
(* one, and the text that names it in install directories, cache keys and  *)
(* object names (src/formula/classfile.go, src/cmd/llar/internal,          *)
(* src/internal/build/http/http.go, src/internal/modules/target.go).       *)
(*                                                                         *)
(* A matrix gives lists of values to named dimensions, required ones and   *)
(* options.  A value, and every text made of values, is a sequence of      *)
(* words, to which the separators "-" and "|" belong.                      *)
(***************************************************************************)
EXTENDS Integers, Sequences, SequencesExt, FiniteSets

CONSTANTS
  Names,         \* the names of dimensions, in alphabetical order
  Word,          \* what values are made of
  Host,          \* Host.os and Host.arch
  CommandLines   \* the arguments of commands

ASSUME NamesAssumption ==
  Names \in Seq(STRING) /\ IsInjective(Names) /\ {"os", "arch"} \subseteq ToSet(Names)

ASSUME HostAssumption == Host \in [os : Seq(Word) \ {<<>>}, arch : Seq(Word) \ {<<>>}]

\* An argument is a flag of the command itself, --require or --option with
\* name=value, or a flag that nobody knows, whose own name is the dimension.
Argument ==
  [flag : {"known", "require", "option", "unknown"},
   name : ToSet(Names) \cup {""}, value : Seq(Word)]

ASSUME CommandLinesAssumption == CommandLines \subseteq Seq(Argument)

VARIABLE
  args           \* a command line

None == <<>>   \* a map without keys
Target == {"os", "arch", "libc"}

\* What f has, and what only g has.
Over(f, g) == [n \in DOMAIN f \cup DOMAIN g |-> IF n \in DOMAIN f THEN f[n] ELSE g[n]]

Matrix(require, options) == [require |-> require, options |-> options]

-----------------------------------------------------------------------------
(* Matrix.Combinations and CombinationCount. *)

\* Every text of xs with every text of ys.
Joined(xs, ys, separator) ==
  [i \in 1..(Len(xs) * Len(ys)) |->
     xs[1 + ((i - 1) \div Len(ys))] \o <<separator>> \o ys[1 + ((i - 1) % Len(ys))]]

\* The texts for the names before the k-th, with its values if it has any.
WithValues(texts, kvs, k) ==
  CASE Names[k] \notin DOMAIN kvs -> texts
    [] Names[k] \in DOMAIN kvs /\ (\A l \in 1..(k - 1) : Names[l] \notin DOMAIN kvs) -> kvs[Names[k]]
    [] OTHER -> Joined(texts, kvs[Names[k]], "-")

\* Combined[k]: one value for each dimension among the first k names.
Combined(kvs) ==
  LET combined[k \in 0..Len(Names)] ==
        IF k = 0 THEN <<>> ELSE LET before == combined[k - 1] IN WithValues(before, kvs, k)
  IN combined

Cartesian(kvs) == Combined(kvs)[Len(Names)]

Combinations(m) ==
  LET require == Cartesian(m.require)
      options == Cartesian(m.options)
  IN IF require = <<>> THEN options
     ELSE IF options = <<>> THEN require
     ELSE Joined(require, options, "|")

\* Counted[k]: the product over the first k names.
Counted(kvs) ==
  LET values(n) == IF n \in DOMAIN kvs THEN Len(kvs[n]) ELSE 1
      counted[k \in 0..Len(Names)] == IF k = 0 THEN 1 ELSE counted[k - 1] * values(Names[k])
  IN counted

CountPart(kvs) == IF DOMAIN kvs = {} THEN 0 ELSE Counted(kvs)[Len(Names)]

CombinationCount(m) ==
  LET require == CountPart(m.require)
      options == CountPart(m.options)
  IN IF require = 0 THEN options
     ELSE IF options = 0 THEN require
     ELSE require * options

-----------------------------------------------------------------------------
(* The command line. *)

HostMatrix == Matrix([os |-> <<Host.os>>, arch |-> <<Host.arch>>], None)

\* The last value that flag gives to each of the names.
Assigned(line, flag) ==
  LET given == {i \in DOMAIN line : line[i].flag = flag}
      last(n) == CHOOSE i \in given :
                   line[i].name = n /\ \A j \in given : line[j].name = n => j <= i
  IN [n \in {line[i].name : i \in given} |-> <<line[last(n)].value>>]

Malformed(arg) == arg.flag # "known" /\ (arg.value = <<>> \/ arg.name = "")

\* --require comes after the flags that nobody knows.
ExtractMatrixFlags(line) ==
  [err |-> \E i \in DOMAIN line : Malformed(line[i]),
   matrix |-> Matrix(Over(Assigned(line, "require"), Assigned(line, "unknown")),
                     Assigned(line, "option"))]

IsBlank(m) == DOMAIN m.require = {} /\ DOMAIN m.options = {}

ResolveMatrix(line) ==
  LET found == ExtractMatrixFlags(line)
  IN IF ~found.err /\ IsBlank(found.matrix)
     THEN [err |-> FALSE, matrix |-> HostMatrix]
     ELSE found

-----------------------------------------------------------------------------
(* llar install sends the matrix as a flat query, llard reads it. *)

SingleValued(kvs) == \A n \in DOMAIN kvs : n # "" /\ Len(kvs[n]) = 1 /\ kvs[n][1] # <<>>

AddMatrix(m) ==
  [err |-> \/ ~SingleValued(m.require) \/ ~SingleValued(m.options)
           \/ DOMAIN m.require \cap DOMAIN m.options # {}
           \/ IsBlank(m),
   query |-> Over(m.require, m.options)]

\* Variant: libc, which came later, is taken for an option.
ParseRequest_NoLibc(query) ==
  [err |-> DOMAIN query = {} \/ ~SingleValued(query),
   matrix |-> Matrix([n \in DOMAIN query \cap {"os", "arch"} |-> query[n]],
                     [n \in DOMAIN query \ {"os", "arch"} |-> query[n]])]

ParseRequest(query) ==
  [err |-> DOMAIN query = {} \/ ~SingleValued(query),
   matrix |-> Matrix([n \in DOMAIN query \cap Target |-> query[n]],
                     [n \in DOMAIN query \ Target |-> query[n]])]

-----------------------------------------------------------------------------
(* What a formula sees of it: its own defaults, and over them the options  *)
(* of the request.                                                         *)

Defaults(target, options) ==
  [target EXCEPT !.defaults = Over(options, @), !.options = Over(options, @)]

InjectMatrix(target, m) ==
  [require |-> m.require,
   options |-> Over(m.options, target.defaults),
   defaults |-> target.defaults]

-----------------------------------------------------------------------------
(* What the key of a matrix tells. *)

\* The matrices of other command lines, each with its text.
Matrices ==
  {[matrix |-> r.matrix, key |-> Combinations(r.matrix)] :
     r \in {s \in {ResolveMatrix(line) : line \in CommandLines} : ~s.err}}

SameNames(m, n) ==
  DOMAIN m.require = DOMAIN n.require /\ DOMAIN m.options = DOMAIN n.options

\* No value has a separator in it.
PlainPart(kvs) ==
  \A n \in DOMAIN kvs : \A i \in DOMAIN kvs[n] : ToSet(kvs[n][i]) \cap {"-", "|"} = {}

Plain(m) == PlainPart(m.require) /\ PlainPart(m.options)

\* All the values that the arguments give to an option, not only the last.
Grid(line) ==
  LET given == {i \in DOMAIN line : line[i].flag = "option"}
      values(n) == {line[i].value : i \in {j \in given : line[j].name = n}}
  IN Matrix(HostMatrix.require, [n \in {line[i].name : i \in given} |-> SetToSeq(values(n))])

\* An accepted command line has one combination, the text that names the
\* matrix in cache keys and paths; of two matrices over the same dimensions,
\* values without separators, each has its own.  Where targets are required
\* and nothing else is, llard takes from the flat query of llar install the
\* matrix that the command has, so that both use one key and formulas see the
\* same options, whatever their defaults.
KeyNamesTheMatrix ==
  args \in Seq(Argument) /\ ~ResolveMatrix(args).err =>
    LET m == ResolveMatrix(args).matrix
        key == Combinations(m)
        grid == Combinations(Grid(args))
        sent == AddMatrix(m)
        received == ParseRequest(sent.query)
        target == Defaults([require |-> <<>>, options |-> <<>>, defaults |-> <<>>],
                           [ssl |-> <<<<"b">>>>])
    IN /\ Len(key) = 1 /\ CombinationCount(m) = 1
       /\ \A n \in Matrices :
            n.key = key /\ SameNames(m, n.matrix) /\ Plain(m) /\ Plain(n.matrix) => m = n.matrix
       /\ Len(grid) = CombinationCount(Grid(args))
       /\ Plain(Grid(args)) => IsInjective(grid)
       /\ ~sent.err =>
            /\ ~received.err
            /\ DOMAIN m.require \subseteq Target /\ DOMAIN m.options \cap Target = {} =>
                 /\ Combinations(received.matrix) = key
                 /\ InjectMatrix(target, received.matrix) = InjectMatrix(target, m)

=============================================================================
