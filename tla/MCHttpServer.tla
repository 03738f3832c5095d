---------------------------- MODULE MCHttpServer ----------------------------
(* Two PCs.  The page asks for names with characters to escape, with an     *)
(* accented letter, with one letter too many and with nothing but blanks;   *)
(* other clients use the query, wrong credentials, unknown routes and names,*)
(* lengths that do not fit, bytes that are not UTF-8 and a head that never  *)
(* ends.                                                                    *)
EXTENDS HttpServer

Symbols  == STRING
Names    == [p \in PC |-> <<"PC">>]
Actions  == {<<"reset">>}
Numbers  == [n \in {<<"0">>, <<"1">>, <<"2">>, <<"3">>} |->
               CASE n = <<"0">> -> 0 [] n = <<"1">> -> 1
                 [] n = <<"2">> -> 2 [] OTHER -> 3]
Bad      == {"0xFF"}
Accented == [x \in {"e acute"} |-> <<"A tilde", "copyright">>]
Escapes  == [xy \in {<<"2", "5">>, <<"2", "6">>, <<"2", "B">>, <<"3", "D">>, <<"+", "5">>,
                     <<"C", "3">>, <<"A", "9">>} |->
               CASE xy = <<"+", "5">> -> "ENQ"
                 [] xy = <<"C", "3">> -> "A tilde" [] xy = <<"A", "9">> -> "copyright"
                 [] xy[2] = "5" -> "%" [] xy[2] = "6" -> "&"
                 [] xy[2] = "B" -> "+" [] OTHER -> "="]

Post(route, form, head) ==
  [method |-> "POST", route |-> route, query |-> <<>>, auth |-> TRUE, head |-> head,
   length |-> Len(Encode(form)), body |-> Encode(form), form |-> form]

Label(id, name) == << <<<<"pc">>, <<id>>>>, <<<<"name">>, name>> >>

OfPage ==
  {Post("/label", Label("1", name), <<"line", "auth", "length">>) :
     name \in {<<"+", "=">>, <<"a", "b", "c">>}}
  \cup {Post("/label", Label("2", name), <<"line", "auth", "length">>) :
          name \in {<<"%", "&">>, <<"e acute">>, <<" ">>}}
  \cup {Post("/action", << <<<<"pc">>, <<id>>>>, <<<<"action">>, <<"reset">>>> >>, head) :
          id \in {"1", "3", "x"}, head \in {<<"line", "auth", "length">>, <<"line", "length", "auth">>}}
  \cup {Post("/kvm", << <<<<"port">>, <<p>>>> >>, <<"line", "auth", "length">>) : p \in {"1", "3"}}

Short == Post("/label", Label("2", <<"a", "b">>), <<"line", "auth", "length">>)

OfOthers ==
  LET plain == [Short EXCEPT !.form = Nothing] IN
  { [plain EXCEPT !.method = "GET", !.route = route, !.auth = ok, !.length = 0, !.body = <<>>] :
      route \in {"/status", "/favicon.ico", "/health", "/x"}, ok \in BOOLEAN }
  \cup { [plain EXCEPT !.length = n] : n \in {-1, 4, 8, 99} }
  \cup { [plain EXCEPT !.auth = FALSE],
         [plain EXCEPT !.body = <<"pc", "=", "2", "&", "name", "=", "%", "+", "5">>, !.length = 9],
         [plain EXCEPT !.head = <<"line", "auth">>, !.query = plain.body, !.body = <<>>, !.length = 0],
         [plain EXCEPT !.body = <<"pc", "=", "2", "&", "name", "=", "0xFF">>, !.length = 7],
         [plain EXCEPT !.head = <<"line", "0xFF", "auth">>],
         [plain EXCEPT !.head = [i \in 1 .. 20 |-> "junk"]] }

Requests == OfPage \cup OfOthers

=============================================================================
