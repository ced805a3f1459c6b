---------------------------- MODULE MCCompilation ----------------------------
(***************************************************************************)
(* Programs for Compilation: every one of the shapes below over a variable *)
(* x declared first, with stores that show what became of it.              *)
(***************************************************************************)
EXTENDS Compilation

Const(v, type) == [kind |-> "const", val |-> v, type |-> type]
Load(c) == [kind |-> "load", name |-> c]
Ref(n) == [kind |-> "ref", name |-> n]
Store(a) == [kind |-> "store", arg |-> a]
Logical(op, l, r) == [kind |-> "logical", op |-> op, left |-> l, right |-> r]
NoOP(isolated, items) == [kind |-> "noop", isolated |-> isolated, items |-> items]
When(args) == [kind |-> "ifblock", args |-> args]

Do(a) == [name |-> "", is_const |-> FALSE, arg |-> a]
Let(n, a) == [name |-> n, is_const |-> TRUE, arg |-> a]
Put(n, a) == [name |-> n, is_const |-> FALSE, arg |-> a]

Block(items) == NoOP(FALSE, items)

A == Load("a")
B == Load("b")
Both == Logical("and", A, B)
Either == Logical("or", Ref("x"), B)

Changes == {Put("x", Const(1, "i32")), Put("y", Ref("x")), Put("x", Const(2, "string")),
            Let("x", Const(3, "i32")), Do(Store(Ref("y")))}

Bodies == {Block(<<s>>) : s \in Changes} \cup {Block(<< >>)}
          \cup {Block(<<Put("y", Ref("x")), Put("x", Const(4, "i32")), Do(Store(Ref("y")))>>)}

Plain(conds, bodies) ==
  {When(<<c, b>>) : c \in conds, b \in bodies}
WithElse(conds, bodies) ==
  {When(<<c, b, e>>) : c \in conds, b \in bodies, e \in bodies}
WithElif(firsts, lasts, bodies) ==
  {When(<<c, b, d, e>>) : c \in firsts, b \in bodies, d \in lasts, e \in bodies}

(* `when` blocks whose last condition is a single load, unless an else      *)
(* follows; and the same nested in the first branch of another.             *)
SimpleLast ==
  Plain({A}, Bodies) \cup WithElse({A, Both, Either}, Bodies) \cup WithElif({A, Both}, {B}, Bodies)

Nested == {When(<<B, Block(<<Do(w), Put("x", Const(5, "i32"))>>)>>) :
             w \in Plain({A}, Bodies) \cup WithElif({Both}, {A}, Bodies)}
     \cup {When(<<Either, Block(<<Do(w)>>), Block(<<Put("x", Const(6, "i32"))>>)>>) :
             w \in WithElse({A}, Bodies)}

Declarations == {<<Put("x", Const(0, "i32"))>>, <<Let("x", Const(0, "i32"))>>,
                 <<Put("x", Const(0, "i32")), Put("y", Const(7, "i32"))>>}

(* Every declared variable is stored at the end. *)
Program(decl, w, isolated) ==
  LET stores == [i \in DOMAIN decl |-> Do(Store(Ref(decl[i].name)))]
  IN  NoOP(isolated, <<Do(Block(decl \o <<Do(w)>> \o stores))>>)

One == {<<Program(d, w, TRUE)>> : d \in Declarations, w \in SimpleLast \cup Nested}

(* Two roots, as the pipeline grouper makes them: isolated. *)
Small == {Program(d, w, TRUE) : d \in Declarations, w \in Plain({A}, Bodies)}
Two == {<<p, q>> : p \in Small, q \in Small}

Programs == One \cup Two

(* A compound last condition without an else. *)
CompoundLast == {<<Program(<<Put("x", Const(0, "i32"))>>, w, TRUE)>> : w \in Plain({Both}, Bodies)}

=============================================================================
