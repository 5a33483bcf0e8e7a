------------------------------ MODULE I6Veneer ------------------------------
(***************************************************************************)
(* Inform 6: the routines of the veneer (veneer.c, VRs_z), which the       *)
(* compiler adds to a program that needs them, as the lexemes of their     *)
(* sources.                                                                *)
(***************************************************************************)
EXTENDS TLC

Veneer_Box__Routine ==
  << "maxw", "table", "n", "w", "w2", "line", "lc", "t", ";", "n", "=", "table", "-->", "0", ";", "@", "add",
     "n", "6", "->", "sp", ";", "@", "split_window", "sp", ";", "@", "set_window", "1", ";", "w", "=", "0",
     "->", "33", ";", "if", "(", "w", "==", "0", ")", "w", "=", "80", ";", "w2", "=", "(", "w", "-", "maxw",
     ")", "/", "2", ";", "if", "(", "w2", "<", "3", ")", "w2", "=", "3", ";", "style", "reverse", ";", "@",
     "sub", "w2", "2", "->", "w", ";", "line", "=", "5", ";", "lc", "=", "1", ";", "@", "set_cursor", "4", "w",
     ";", "spaces", "maxw", "+", "4", ";", "do", "{", "@", "set_cursor", "line", "w", ";", "spaces", "maxw",
     "+", "4", ";", "@", "set_cursor", "line", "w2", ";", "t", "=", "table", "-->", "lc", ";", "if", "(", "t",
     "~=", "0", ")", "print", "(", "string", ")", "t", ";", "line", "++", ";", "lc", "++", ";", "}", "until",
     "(", "lc", ">", "n", ")", ";", "@", "set_cursor", "line", "w", ";", "spaces", "maxw", "+", "4", ";", "@",
     "buffer_mode", "1", ";", "style", "roman", ";", "@", "set_window", "0", ";", "@", "split_window", "1", ";",
     "@", "output_stream", "$ffff", ";", "print", "''[ ''", ";", "lc", "=", "1", ";", "do", "{", "w", "=",
     "table", "-->", "lc", ";", "if", "(", "w", "~=", "0", ")", "print", "(", "string", ")", "w", ";", "lc",
     "++", ";", "if", "(", "lc", ">", "n", ")", "{", "print", "'']^^''", ";", "break", ";", "}", "print",
     "''^  ''", ";", "}", "until", "(", "false", ")", ";", "@", "output_stream", "1", ";", "]" >>

Veneer_R_Process ==
  << "a", "b", "c", "d", ";", "print", "''Action <''", ",", "a", ",", "'' ''", ",", "b", ",", "'' ''", ",", "c",
     ";", "if", "(", "d", ")", "print", "'', ''", ",", "d", ";", "print", "''>^''", ";", "]" >>

Veneer_DefArt ==
  << "obj", ";", "print", "''the ''", ",", "obj", ";", "]" >>

Veneer_InDefArt ==
  << "obj", ";", "print", "''a ''", ",", "obj", ";", "]" >>

Veneer_CDefArt ==
  << "obj", ";", "print", "''The ''", ",", "obj", ";", "]" >>

Veneer_CInDefArt ==
  << "obj", ";", "print", "''A ''", ",", "obj", ";", "]" >>

Veneer_PrintShortName ==
  << "obj", ";", "switch", "(", "metaclass", "(", "obj", ")", ")", "{", "0", ":", "print", "''nothing''", ";",
     "Object", ":", "@", "print_obj", "obj", ";", "Class", ":", "print", "''class ''", ";", "@", "print_obj",
     "obj", ";", "Routine", ":", "print", "''(routine at ''", ",", "obj", ",", "'')''", ";", "String", ":",
     "print", "''(string at ''", ",", "obj", ",", "'')''", ";", "}", "]" >>

Veneer_EnglishNumber ==
  << "obj", ";", "print", "obj", ";", "]" >>

Veneer_Print__PName ==
  << "prop", "p", "size", "cla", "i", ";", "if", "(", "prop", "&", "$c000", ")", "{", "cla", "=", "#",
     "classes_table", "-->", "(", "prop", "&", "$ff", ")", ";", "print", "(", "name", ")", "cla", ",", "''::''",
     ";", "if", "(", "(", "prop", "&", "$8000", ")", "==", "0", ")", "prop", "=", "(", "prop", "&", "$3f00",
     ")", "/", "$100", ";", "else", "{", "prop", "=", "(", "prop", "&", "$7f00", ")", "/", "$100", ";", "i",
     "=", "cla", ".", "3", ";", "while", "(", "(", "i", "-->", "0", "~=", "0", ")", "&&", "(", "prop", ">", "0",
     ")", ")", "{", "i", "=", "i", "+", "i", "->", "2", "+", "3", ";", "prop", "--", ";", "}", "prop", "=", "(",
     "i", "-->", "0", ")", "&", "$7fff", ";", "}", "}", "#", "ifdef", "OMIT_SYMBOL_TABLE", ";", "p", "=",
     "size", "=", "0", ";", "print", "''<number ''", ",", "prop", ",", "''>''", ";", "#", "ifnot", ";", "p",
     "=", "#", "identifiers_table", ";", "size", "=", "p", "-->", "0", ";", "if", "(", "prop", "<=", "0", "||",
     "prop", ">=", "size", "||", "p", "-->", "prop", "==", "0", ")", "print", "''<number ''", ",", "prop", ",",
     "''>''", ";", "else", "print", "(", "string", ")", "p", "-->", "prop", ";", "#", "endif", ";", "]" >>

Veneer_WV__Pr ==
  << "obj", "identifier", "value", "x", ";", "x", "=", "obj", "..&", "identifier", ";", "if", "(", "x", "==",
     "0", ")", "{", "RT__Err", "(", "''write to''", ",", "obj", ",", "identifier", ")", ";", "return", ";", "}",
     "#", "ifdef", "INFIX", ";", "if", "(", "obj", "has", "infix__watching", "||", "(", "debug_flag", "&", "15",
     ")", ")", "RT__TrPS", "(", "obj", ",", "identifier", ",", "value", ")", ";", "#", "ifnot", ";", "#",
     "ifdef", "DEBUG", ";", "if", "(", "debug_flag", "&", "15", ")", "RT__TrPS", "(", "obj", ",", "identifier",
     ",", "value", ")", ";", "#", "endif", ";", "#", "endif", ";", "x", "-->", "0", "=", "value", ";", "]" >>

Veneer_RV__Pr ==
  << "obj", "identifier", "x", ";", "x", "=", "obj", "..&", "identifier", ";", "if", "(", "x", "==", "0", ")",
     "{", "if", "(", "identifier", ">=", "1", "&&", "identifier", "<", "64", "&&", "obj", ".#", "identifier",
     "<=", "2", ")", "return", "obj", ".", "identifier", ";", "RT__Err", "(", "''read''", ",", "obj", ",",
     "identifier", ")", ";", "return", ";", "}", "#", "ifv3", ";", "if", "(", "obj", "..#", "identifier", ">",
     "2", ")", "RT__Err", "(", "''read''", ",", "obj", ",", "identifier", ")", ";", "#", "ifnot", ";", "if",
     "(", "obj", "..#", "identifier", ">", "2", ")", "RT__Err", "(", "''read''", ",", "obj", ",", "identifier",
     ",", "2", ")", ";", "#", "endif", ";", "return", "x", "-->", "0", ";", "]" >>

Veneer_CA__Pr ==
  << "obj", "id", "a", "b", "c", "d", "e", "f", "x", "y", "z", "s", "s2", "n", "m", ";", "#", "ifv3", ";", "#",
     "message", "error", "''Object message calls are not supported in v3.''", ";", "obj", "=", "id", "=", "a",
     "=", "b", "=", "c", "=", "d", "=", "e", "=", "f", "=", "x", "=", "y", "=", "z", "=", "s", "=", "s2", "=",
     "n", "=", "m", "=", "0", ";", "#", "ifnot", ";", "if", "(", "obj", "<", "1", "||", "obj", ">", "#",
     "largest_object", "-", "255", ")", "{", "switch", "(", "Z__Region", "(", "obj", ")", ")", "{", "2", ":",
     "if", "(", "id", "==", "call", ")", "{", "s", "=", "sender", ";", "sender", "=", "self", ";", "self", "=",
     "obj", ";", "#", "ifdef", "action", ";", "sw__var", "=", "action", ";", "#", "endif", ";", "x", "=",
     "indirect", "(", "obj", ",", "a", ",", "b", ",", "c", ",", "d", ",", "e", ",", "f", ")", ";", "self", "=",
     "sender", ";", "sender", "=", "s", ";", "return", "x", ";", "}", "jump", "Call__Error", ";", "3", ":",
     "if", "(", "id", "==", "print", ")", "{", "@", "print_paddr", "obj", ";", "rtrue", ";", "}", "if", "(",
     "id", "==", "print_to_array", ")", "{", "@", "output_stream", "3", "a", ";", "@", "print_paddr", "obj",
     ";", "@", "output_stream", "-", "3", ";", "return", "a", "-->", "0", ";", "}", "jump", "Call__Error", ";",
     "}", "jump", "Call__Error", ";", "}", "@", "check_arg_count", "3", "?~", "A__x", ";", "y", "++", ";", "@",
     "check_arg_count", "4", "?~", "A__x", ";", "y", "++", ";", "@", "check_arg_count", "5", "?~", "A__x", ";",
     "y", "++", ";", "@", "check_arg_count", "6", "?~", "A__x", ";", "y", "++", ";", "@", "check_arg_count",
     "7", "?~", "A__x", ";", "y", "++", ";", "@", "check_arg_count", "8", "?~", "A__x", ";", "y", "++", ";",
     ".", "A__x", ";", "#", "ifdef", "INFIX", ";", "if", "(", "obj", "has", "infix__watching", ")", "n", "=",
     "1", ";", "#", "endif", ";", "#", "ifdef", "DEBUG", ";", "if", "(", "debug_flag", "&", "1", "~=", "0", ")",
     "n", "=", "1", ";", "#", "endif", ";", "if", "(", "n", "==", "1", ")", "{", "#", "ifdef", "DEBUG", ";",
     "n", "=", "debug_flag", "&", "1", ";", "debug_flag", "=", "debug_flag", "-", "n", ";", "#", "endif", ";",
     "print", "''[ ~''", ",", "(", "name", ")", "obj", ",", "''~.''", ",", "(", "property", ")", "id", ",",
     "''(''", ";", "switch", "(", "y", ")", "{", "1", ":", "print", "a", ";", "2", ":", "print", "a", ",",
     "'',''", ",", "b", ";", "3", ":", "print", "a", ",", "'',''", ",", "b", ",", "'',''", ",", "c", ";", "4",
     ":", "print", "a", ",", "'',''", ",", "b", ",", "'',''", ",", "c", ",", "'',''", ",", "d", ";", "5", ":",
     "print", "a", ",", "'',''", ",", "b", ",", "'',''", ",", "c", ",", "'',''", ",", "d", ",", "'',''", ",",
     "e", ";", "6", ":", "print", "a", ",", "'',''", ",", "b", ",", "'',''", ",", "c", ",", "'',''", ",", "d",
     ",", "'',''", ",", "e", ",", "'',''", ",", "f", ";", "}", "print", "'') ]^''", ";", "#", "ifdef", "DEBUG",
     ";", "debug_flag", "=", "debug_flag", "+", "n", ";", "#", "endif", ";", "}", "if", "(", "id", ">", "0",
     "&&", "id", "<", "64", ")", "{", "x", "=", "obj", ".&", "id", ";", "if", "(", "x", "==", "0", ")", "{",
     "x", "=", "$000a", "-->", "0", "+", "2", "*", "(", "id", "-", "1", ")", ";", "n", "=", "2", ";", "}",
     "else", "n", "=", "obj", ".#", "id", ";", "}", "else", "{", "if", "(", "id", ">=", "64", "&&", "id", "<",
     "69", "&&", "obj", "in", "Class", ")", "return", "Cl__Ms", "(", "obj", ",", "id", ",", "y", ",", "a", ",",
     "b", ",", "c", ",", "d", ")", ";", "x", "=", "obj", "..&", "id", ";", "if", "(", "x", "==", "0", ")", "{",
     ".", "Call__Error", ";", "RT__Err", "(", "''send message''", ",", "obj", ",", "id", ")", ";", "return",
     ";", "}", "n", "=", "0", "->", "(", "x", "-", "1", ")", ";", "if", "(", "id", "&", "$C000", "==", "$4000",
     ")", "switch", "(", "n", "&", "$C0", ")", "{", "0", ":", "n", "=", "1", ";", "$40", ":", "n", "=", "2",
     ";", "$80", ":", "n", "=", "n", "&", "$3F", ";", "}", "}", "for", "(", ":", "2", "*", "m", "<", "n", ":",
     "m", "++", ")", "{", "if", "(", "x", "-->", "m", "==", "$ffff", ")", "rfalse", ";", "switch", "(",
     "Z__Region", "(", "x", "-->", "m", ")", ")", "{", "2", ":", "s", "=", "sender", ";", "sender", "=", "self",
     ";", "self", "=", "obj", ";", "s2", "=", "sw__var", ";", "#", "ifdef", "LibSerial", ";", "if", "(", "id",
     "==", "life", ")", "sw__var", "=", "reason_code", ";", "else", "sw__var", "=", "action", ";", "#", "endif",
     ";", "switch", "(", "y", ")", "{", "0", ":", "z", "=", "indirect", "(", "x", "-->", "m", ")", ";", "1",
     ":", "z", "=", "indirect", "(", "x", "-->", "m", ",", "a", ")", ";", "2", ":", "z", "=", "indirect", "(",
     "x", "-->", "m", ",", "a", ",", "b", ")", ";", "3", ":", "z", "=", "indirect", "(", "x", "-->", "m", ",",
     "a", ",", "b", ",", "c", ")", ";", "4", ":", "z", "=", "indirect", "(", "x", "-->", "m", ",", "a", ",",
     "b", ",", "c", ",", "d", ")", ";", "5", ":", "z", "=", "indirect", "(", "x", "-->", "m", ",", "a", ",",
     "b", ",", "c", ",", "d", ",", "e", ")", ";", "6", ":", "z", "=", "indirect", "(", "x", "-->", "m", ",",
     "a", ",", "b", ",", "c", ",", "d", ",", "e", ",", "f", ")", ";", "}", "self", "=", "sender", ";", "sender",
     "=", "s", ";", "sw__var", "=", "s2", ";", "if", "(", "z", "~=", "0", ")", "return", "z", ";", "3", ":",
     "print_ret", "(", "string", ")", "x", "-->", "m", ";", "default", ":", "return", "x", "-->", "m", ";", "}",
     "}", "#", "endif", ";", "rfalse", ";", "]" >>

Veneer_IB__Pr ==
  << "obj", "identifier", "x", ";", "x", "=", "obj", "..&", "identifier", ";", "if", "(", "x", "==", "0", ")",
     "{", "RT__Err", "(", "''increment''", ",", "obj", ",", "identifier", ")", ";", "return", ";", "}", "#",
     "ifdef", "INFIX", ";", "if", "(", "obj", "has", "infix__watching", "||", "(", "debug_flag", "&", "15", ")",
     ")", "RT__TrPS", "(", "obj", ",", "identifier", ",", "(", "x", "-->", "0", ")", "+", "1", ")", ";", "#",
     "ifnot", ";", "#", "ifdef", "DEBUG", ";", "if", "(", "debug_flag", "&", "15", ")", "RT__TrPS", "(", "obj",
     ",", "identifier", ",", "(", "x", "-->", "0", ")", "+", "1", ")", ";", "#", "endif", ";", "#", "endif",
     ";", "return", "++", "(", "x", "-->", "0", ")", ";", "]" >>

Veneer_IA__Pr ==
  << "obj", "identifier", "x", ";", "x", "=", "obj", "..&", "identifier", ";", "if", "(", "x", "==", "0", ")",
     "{", "RT__Err", "(", "''increment''", ",", "obj", ",", "identifier", ")", ";", "return", ";", "}", "#",
     "ifdef", "INFIX", ";", "if", "(", "obj", "has", "infix__watching", "||", "(", "debug_flag", "&", "15", ")",
     ")", "RT__TrPS", "(", "obj", ",", "identifier", ",", "(", "x", "-->", "0", ")", "+", "1", ")", ";", "#",
     "ifnot", ";", "#", "ifdef", "DEBUG", ";", "if", "(", "debug_flag", "&", "15", ")", "RT__TrPS", "(", "obj",
     ",", "identifier", ",", "(", "x", "-->", "0", ")", "+", "1", ")", ";", "#", "endif", ";", "#", "endif",
     ";", "return", "(", "x", "-->", "0", ")", "++", ";", "]" >>

Veneer_DB__Pr ==
  << "obj", "identifier", "x", ";", "x", "=", "obj", "..&", "identifier", ";", "if", "(", "x", "==", "0", ")",
     "{", "RT__Err", "(", "''decrement''", ",", "obj", ",", "identifier", ")", ";", "return", ";", "}", "#",
     "ifdef", "INFIX", ";", "if", "(", "obj", "has", "infix__watching", "||", "(", "debug_flag", "&", "15", ")",
     ")", "RT__TrPS", "(", "obj", ",", "identifier", ",", "(", "x", "-->", "0", ")", "-", "1", ")", ";", "#",
     "ifnot", ";", "#", "ifdef", "DEBUG", ";", "if", "(", "debug_flag", "&", "15", ")", "RT__TrPS", "(", "obj",
     ",", "identifier", ",", "(", "x", "-->", "0", ")", "-", "1", ")", ";", "#", "endif", ";", "#", "endif",
     ";", "return", "--", "(", "x", "-->", "0", ")", ";", "]" >>

Veneer_DA__Pr ==
  << "obj", "identifier", "x", ";", "x", "=", "obj", "..&", "identifier", ";", "if", "(", "x", "==", "0", ")",
     "{", "RT__Err", "(", "''decrement''", ",", "obj", ",", "identifier", ")", ";", "return", ";", "}", "#",
     "ifdef", "INFIX", ";", "if", "(", "obj", "has", "infix__watching", "||", "(", "debug_flag", "&", "15", ")",
     ")", "RT__TrPS", "(", "obj", ",", "identifier", ",", "(", "x", "-->", "0", ")", "-", "1", ")", ";", "#",
     "ifnot", ";", "#", "ifdef", "DEBUG", ";", "if", "(", "debug_flag", "&", "15", ")", "RT__TrPS", "(", "obj",
     ",", "identifier", ",", "(", "x", "-->", "0", ")", "-", "1", ")", ";", "#", "endif", ";", "#", "endif",
     ";", "return", "(", "x", "-->", "0", ")", "--", ";", "]" >>

Veneer_RA__Pr ==
  << "obj", "identifier", "i", "otherid", "cla", ";", "if", "(", "obj", "==", "0", ")", "rfalse", ";", "if",
     "(", "identifier", "<", "64", "&&", "identifier", ">", "0", ")", "return", "obj", ".&", "identifier", ";",
     "if", "(", "identifier", "&", "$8000", "~=", "0", ")", "{", "cla", "=", "#", "classes_table", "-->", "(",
     "identifier", "&", "$ff", ")", ";", "if", "(", "cla", ".&", "3", "==", "0", ")", "rfalse", ";", "if", "(",
     "~~", "(", "obj", "ofclass", "cla", ")", ")", "rfalse", ";", "identifier", "=", "(", "identifier", "&",
     "$7f00", ")", "/", "$100", ";", "i", "=", "cla", ".", "3", ";", "while", "(", "identifier", ">", "0", ")",
     "{", "identifier", "--", ";", "i", "=", "i", "+", "i", "->", "2", "+", "3", ";", "}", "return", "i", "+",
     "3", ";", "}", "if", "(", "identifier", "&", "$4000", "~=", "0", ")", "{", "cla", "=", "#",
     "classes_table", "-->", "(", "identifier", "&", "$ff", ")", ";", "identifier", "=", "(", "identifier", "&",
     "$3f00", ")", "/", "$100", ";", "if", "(", "~~", "(", "obj", "ofclass", "cla", ")", ")", "rfalse", ";",
     "i", "=", "0", "-->", "5", ";", "if", "(", "cla", "==", "2", ")", "return", "i", "+", "2", "*",
     "identifier", "-", "2", ";", "#", "ifv3", ";", "i", "=", "(", "i", "+", "60", "+", "cla", "*", "9", ")",
     "-->", "0", ";", "#", "ifnot", ";", "i", "=", "0", "-->", "(", "(", "i", "+", "124", "+", "cla", "*", "14",
     ")", "/", "2", ")", ";", "#", "endif", ";", "i", "=", "CP__Tab", "(", "i", "+", "2", "*", "(", "0", "->",
     "i", ")", "+", "1", ",", "-", "1", ")", "+", "6", ";", "return", "CP__Tab", "(", "i", ",", "identifier",
     ")", ";", "}", "if", "(", "obj", ".&", "3", "==", "0", ")", "rfalse", ";", "if", "(", "obj", "in", "1",
     ")", "{", "if", "(", "identifier", "<", "64", "||", "identifier", ">=", "72", ")", "rfalse", ";", "}",
     "if", "(", "self", "==", "obj", ")", "otherid", "=", "identifier", "|", "$8000", ";", "i", "=", "obj", ".",
     "3", ";", "while", "(", "i", "-->", "0", "~=", "0", ")", "{", "if", "(", "i", "-->", "0", "==",
     "identifier", "or", "otherid", ")", "return", "i", "+", "3", ";", "i", "=", "i", "+", "i", "->", "2", "+",
     "3", ";", "}", "rfalse", ";", "]" >>

Veneer_RL__Pr ==
  << "obj", "identifier", "x", ";", "if", "(", "identifier", "<", "64", "&&", "identifier", ">", "0", ")",
     "return", "obj", ".#", "identifier", ";", "x", "=", "obj", "..&", "identifier", ";", "if", "(", "x", "==",
     "0", ")", "rfalse", ";", "if", "(", "identifier", "&", "$C000", "==", "$4000", ")", "{", "#", "ifv3", ";",
     "return", "1", "+", "(", "(", "x", "-", "1", ")", "->", "0", ")", "/", "$20", ";", "#", "ifnot", ";",
     "switch", "(", "(", "(", "x", "-", "1", ")", "->", "0", ")", "&", "$C0", ")", "{", "0", ":", "return", "1",
     ";", "$40", ":", "return", "2", ";", "$80", ":", "return", "(", "(", "x", "-", "1", ")", "->", "0", ")",
     "&", "$3F", ";", "}", "#", "endif", ";", "}", "return", "(", "x", "-", "1", ")", "->", "0", ";", "]" >>

Veneer_RA__Sc ==
  << "cla", "identifier", "otherid", "i", "j", "k", ";", "if", "(", "cla", "notin", "1", "&&", "cla", ">", "4",
     ")", "{", "RT__Err", "(", "''be a '::' superclass''", ",", "cla", ",", "-", "1", ")", ";", "rfalse", ";",
     "}", "if", "(", "self", "ofclass", "cla", ")", "otherid", "=", "identifier", "|", "$8000", ";", "for", "(",
     "j", "=", "0", ":", "#", "classes_table", "-->", "j", "~=", "0", ":", "j", "++", ")", "{", "if", "(",
     "cla", "==", "#", "classes_table", "-->", "j", ")", "{", "if", "(", "identifier", "<", "64", ")", "return",
     "$4000", "+", "identifier", "*", "$100", "+", "j", ";", "if", "(", "cla", ".&", "3", "==", "0", ")",
     "break", ";", "i", "=", "cla", ".", "3", ";", "while", "(", "i", "-->", "0", "~=", "0", ")", "{", "if",
     "(", "i", "-->", "0", "==", "identifier", "or", "otherid", ")", "return", "$8000", "+", "k", "*", "$100",
     "+", "j", ";", "i", "=", "i", "+", "i", "->", "2", "+", "3", ";", "k", "++", ";", "}", "break", ";", "}",
     "}", "RT__Err", "(", "''make use of''", ",", "cla", ",", "identifier", ")", ";", "rfalse", ";", "]" >>

Veneer_OP__Pr ==
  << "obj", "identifier", ";", "if", "(", "obj", "<", "1", "||", "obj", ">", "(", "#", "largest_object", "-",
     "255", ")", ")", "{", "if", "(", "identifier", "~=", "print", "or", "print_to_array", "or", "call", ")",
     "rfalse", ";", "switch", "(", "Z__Region", "(", "obj", ")", ")", "{", "2", ":", "if", "(", "identifier",
     "==", "call", ")", "rtrue", ";", "3", ":", "if", "(", "identifier", "==", "print", "or", "print_to_array",
     ")", "rtrue", ";", "}", "rfalse", ";", "}", "if", "(", "identifier", "<", "64", ")", "{", "if", "(", "obj",
     ".&", "identifier", "~=", "0", ")", "rtrue", ";", "rfalse", ";", "}", "if", "(", "obj", "..&",
     "identifier", "~=", "0", ")", "rtrue", ";", "if", "(", "identifier", "<", "72", "&&", "obj", "in", "1",
     ")", "rtrue", ";", "rfalse", ";", "]" >>

Veneer_OC__Cl ==
  << "obj", "cla", "j", "a", "n", ";", "if", "(", "obj", "<", "1", "||", "obj", ">", "(", "#", "largest_object",
     "-", "255", ")", ")", "{", "if", "(", "cla", "~=", "3", "or", "4", ")", "rfalse", ";", "if", "(",
     "Z__Region", "(", "obj", ")", "==", "cla", "-", "1", ")", "rtrue", ";", "rfalse", ";", "}", "if", "(",
     "cla", "==", "1", ")", "{", "if", "(", "obj", "<=", "4", ")", "rtrue", ";", "if", "(", "obj", "in", "1",
     ")", "rtrue", ";", "rfalse", ";", "}", "else", "if", "(", "cla", "==", "2", ")", "{", "if", "(", "obj",
     "<=", "4", ")", "rfalse", ";", "if", "(", "obj", "in", "1", ")", "rfalse", ";", "rtrue", ";", "}", "else",
     "if", "(", "cla", "==", "3", "or", "4", ")", "{", "rfalse", ";", "}", "if", "(", "cla", "notin", "1", ")",
     "{", "RT__Err", "(", "''apply 'ofclass' for''", ",", "cla", ",", "-", "1", ")", ";", "rfalse", ";", "}",
     "@", "get_prop_addr", "obj", "2", "->", "a", ";", "if", "(", "a", "==", "0", ")", "rfalse", ";", "@",
     "get_prop_len", "a", "->", "n", ";", "for", "(", "j", "=", "0", ":", "j", "<", "n", "/", "2", ":", "j",
     "++", ")", "{", "if", "(", "a", "-->", "j", "==", "cla", ")", "rtrue", ";", "}", "rfalse", ";", "]" >>

Veneer_Copy__Primitive ==
  << "o1", "o2", "a1", "a2", "n", "m", "l", "size", "identifier", ";", "for", "(", "n", "=", "0", ":", "n", "<",
     "48", ":", "n", "++", ")", "{", "if", "(", "o2", "has", "n", ")", "give", "o1", "n", ";", "else", "give",
     "o1", "~", "n", ";", "}", "for", "(", "n", "=", "1", ":", "n", "<", "64", ":", "n", "++", ")", "if", "(",
     "n", "~=", "2", "or", "3", ")", "{", "a1", "=", "o1", ".&", "n", ";", "a2", "=", "o2", ".&", "n", ";",
     "size", "=", "o1", ".#", "n", ";", "if", "(", "a1", "~=", "0", "&&", "a2", "~=", "0", "&&", "size", "==",
     "o2", ".#", "n", ")", "{", "for", "(", "m", "=", "0", ":", "m", "<", "size", ":", "m", "++", ")", "a1",
     "->", "m", "=", "a2", "->", "m", ";", "}", "}", "if", "(", "o1", ".&", "3", "==", "0", "||", "o2", ".&",
     "3", "==", "0", ")", "return", ";", "for", "(", "n", "=", "o2", ".", "3", ":", "n", "-->", "0", "~=", "0",
     ":", "n", "=", "n", "+", "size", "+", "3", ")", "{", "identifier", "=", "n", "-->", "0", ";", "size", "=",
     "n", "->", "2", ";", "for", "(", "m", "=", "o1", ".", "3", ":", "m", "-->", "0", "~=", "0", ":", "m", "=",
     "m", "+", "m", "->", "2", "+", "3", ")", "if", "(", "(", "identifier", "&", "$7fff", "==", "(", "m", "-->",
     "0", ")", "&", "$7fff", ")", "&&", "size", "==", "m", "->", "2", ")", "for", "(", "l", "=", "3", ":", "l",
     "<", "size", "+", "3", ":", "l", "++", ")", "m", "->", "l", "=", "n", "->", "l", ";", "}", "]" >>

Veneer_RT__Err ==
  << "crime", "obj", "id", "size", "p", "q", ";", "print", "''^[** Programming error: ''", ";", "if", "(",
     "crime", "<", "0", ")", "jump", "RErr", ";", "if", "(", "crime", "==", "1", ")", "{", "print",
     "''class ''", ";", "@", "print_obj", "obj", ";", "'': 'create' can have 0 to 3 parameters only **]''", ";",
     "}", "if", "(", "crime", "==", "32", ")", "''objectloop broken because the object ''", ",", "(", "name",
     ")", "obj", ",", "'' was moved while the loop passed through it **]''", ";", "if", "(", "crime", "==",
     "33", ")", "''tried to print (char) ''", ",", "obj", ",",
     "'', which is not a valid ZSCII character code for output **]''", ";", "if", "(", "crime", "==", "34", ")",
     "''tried to print (address) on something not the ''", ",", "''byte address of a string **]''", ";", "if",
     "(", "crime", "==", "35", ")", "''tried to print (string) on something not a ''", ",", "''string **]''",
     ";", "if", "(", "crime", "==", "36", ")", "''tried to print (object) on something not an ''", ",",
     "''object or class **]''", ";", "if", "(", "crime", "<", "32", ")", "{", "print", "''tried to ''", ";",
     "if", "(", "crime", ">=", "28", ")", "{", "if", "(", "crime", "==", "28", "or", "29", ")", "print",
     "''read from ''", ";", "else", "print", "''write to ''", ";", "if", "(", "crime", "==", "29", "or", "31",
     ")", "print", "''-''", ";", "print", "''->''", ",", "obj", ",", "'' in the''", ";", "switch", "(", "size",
     "&", "7", ")", "{", "0", ",", "1", ":", "q", "=", "0", ";", "2", ":", "print", "'' string''", ";", "q",
     "=", "1", ";", "3", ":", "print", "'' table''", ";", "q", "=", "1", ";", "4", ":", "print", "'' buffer''",
     ";", "q", "=", "WORDSIZE", ";", "}", "if", "(", "size", "&", "16", ")", "print", "'' (->)''", ";", "if",
     "(", "size", "&", "8", ")", "print", "'' (-->)''", ";", "#", "ifdef", "OMIT_SYMBOL_TABLE", ";",
     "'' array which has entries ''", ",", "q", ",", "'' up to ''", ",", "id", ",", "'' **]''", ";", "#",
     "ifnot", ";", "'' array ~''", ",", "(", "string", ")", "#", "array_names_offset", "-->", "p", ",",
     "''~, which has entries ''", ",", "q", ",", "'' up to ''", ",", "id", ",", "'' **]''", ";", "#", "endif",
     ";", "}", "if", "(", "crime", ">=", "24", "&&", "crime", "<=", "27", ")", "{", "if", "(", "crime", "<=",
     "25", ")", "print", "''read''", ";", "else", "print", "''write''", ";", "print",
     "'' outside memory using ''", ";", "switch", "(", "crime", ")", "{", "24", ",", "26", ":", "''-> **]''",
     ";", "25", ",", "27", ":", "''--> **]''", ";", "}", "}", "if", "(", "crime", "<", "4", ")", "print",
     "''test ''", ";", "else", "if", "(", "crime", "<", "12", "||", "crime", ">", "20", ")", "print",
     "''find the ''", ";", "else", "if", "(", "crime", "<", "14", ")", "print", "''use ''", ";", "if", "(",
     "crime", "==", "20", ")", "''divide by zero **]''", ";", "print", "''~''", ";", "switch", "(", "crime",
     ")", "{", "2", ":", "print", "''in~ or ~notin''", ";", "3", ":", "print", "''has~ or ~hasnt''", ";", "4",
     ":", "print", "''parent''", ";", "5", ":", "print", "''eldest''", ";", "6", ":", "print", "''child''", ";",
     "7", ":", "print", "''younger''", ";", "8", ":", "print", "''sibling''", ";", "9", ":", "print",
     "''children''", ";", "10", ":", "print", "''youngest''", ";", "11", ":", "print", "''elder''", ";", "12",
     ":", "print", "''objectloop''", ";", "13", ":", "print", "''}~ at end of ~objectloop''", ";", "14", ":",
     "''give~ an attribute to ''", ",", "(", "name", ")", "obj", ",", "'' **]''", ";", "15", ":",
     "''remove~ ''", ",", "(", "name", ")", "obj", ",", "'' **]''", ";", "16", ",", "17", ",", "18", ":",
     "print", "''move~ ''", ",", "(", "name", ")", "obj", ",", "'' to ''", ",", "(", "name", ")", "id", ";",
     "if", "(", "crime", "==", "18", ")", "{", "print", "'', which would make a loop: ''", ",", "(", "name",
     ")", "obj", ";", "p", "=", "id", ";", "if", "(", "p", "==", "obj", ")", "p", "=", "obj", ";", "else", "do",
     "{", "print", "'' in ''", ",", "(", "name", ")", "p", ";", "p", "=", "parent", "(", "p", ")", ";", "}",
     "until", "(", "p", "==", "obj", ")", ";", "'' in ''", ",", "(", "name", ")", "p", ",", "'' **]''", ";",
     "}", "'' **]''", ";", "19", ":", "''give~ or test ~has~ or ~hasnt~ with a non-attribute on the object ''",
     ",", "(", "name", ")", "obj", ",", "'' **]''", ";", "21", ":", "print", "''.&''", ";", "22", ":", "print",
     "''.#''", ";", "23", ":", "print", "''.''", ";", "}", "''~ of ''", ",", "(", "name", ")", "obj", ",",
     "'' **]''", ";", "}", ".", "RErr", ";", "if", "(", "obj", ">=", "0", "&&", "obj", "<=", "(", "#",
     "largest_object", "-", "255", ")", ")", "{", "if", "(", "obj", "&&", "obj", "in", "Class", ")", "print",
     "''class ''", ";", "if", "(", "obj", ")", "@", "print_obj", "obj", ";", "else", "print", "''nothing''",
     ";", "print", "'' ''", ";", "}", "print", "''(object number ''", ",", "obj", ",", "'') ''", ";", "if", "(",
     "id", "<", "0", ")", "print", "''is not of class ''", ",", "(", "name", ")", "-", "id", ";", "else", "if",
     "(", "size", ")", "print", "''has a property ''", ",", "(", "property", ")", "id", ",",
     "'', but it is longer than 2 bytes so you cannot use ~.~''", ";", "else", "{", "print",
     "'' has no property ''", ",", "(", "property", ")", "id", ";", "#", "ifndef", "OMIT_SYMBOL_TABLE", ";",
     "p", "=", "#", "identifiers_table", ";", "size", "=", "p", "-->", "0", ";", "if", "(", "id", "<", "0",
     "||", "id", ">=", "size", ")", "print", "'' (and nor has any other object)''", ";", "#", "endif", ";", "}",
     "print", "'' to ''", ",", "(", "string", ")", "crime", ",", "'' **]^''", ";", "]" >>

Veneer_Z__Region ==
  << "addr", "top", ";", "if", "(", "addr", "==", "0", "or", "-", "1", ")", "rfalse", ";", "top", "=", "addr",
     ";", "#", "ifv5", ";", "#", "iftrue", "(", "#", "version_number", "==", "6", ")", "||", "(", "#",
     "version_number", "==", "7", ")", ";", "@", "log_shift", "addr", "$FFFF", "->", "top", ";", "#", "endif",
     ";", "#", "endif", ";", "if", "(", "Unsigned__Compare", "(", "top", ",", "$001A", "-->", "0", ")", ">=",
     "0", ")", "rfalse", ";", "if", "(", "addr", ">=", "1", "&&", "addr", "<=", "(", "#", "largest_object", "-",
     "255", ")", ")", "rtrue", ";", "#", "iftrue", "#", "oddeven_packing", ";", "@", "test", "addr", "1", "?~",
     "NotString", ";", "if", "(", "Unsigned__Compare", "(", "addr", ",", "#", "strings_offset", ")", "<", "0",
     ")", "rfalse", ";", "return", "3", ";", ".", "NotString", ";", "if", "(", "Unsigned__Compare", "(", "addr",
     ",", "#", "code_offset", ")", "<", "0", ")", "rfalse", ";", "return", "2", ";", "#", "ifnot", ";", "if",
     "(", "Unsigned__Compare", "(", "addr", ",", "#", "strings_offset", ")", ">=", "0", ")", "return", "3", ";",
     "if", "(", "Unsigned__Compare", "(", "addr", ",", "#", "code_offset", ")", ">=", "0", ")", "return", "2",
     ";", "rfalse", ";", "#", "endif", ";", "]" >>

Veneer_Unsigned__Compare ==
  << "x", "y", "u", "v", ";", "if", "(", "x", "==", "y", ")", "return", "0", ";", "if", "(", "x", "<", "0",
     "&&", "y", ">=", "0", ")", "return", "1", ";", "if", "(", "x", ">=", "0", "&&", "y", "<", "0", ")",
     "return", "-", "1", ";", "u", "=", "x", "&", "$7fff", ";", "v", "=", "y", "&", "$7fff", ";", "if", "(",
     "u", ">", "v", ")", "return", "1", ";", "return", "-", "1", ";", "]" >>

Veneer_Meta__class ==
  << "obj", ";", "switch", "(", "Z__Region", "(", "obj", ")", ")", "{", "2", ":", "return", "Routine", ";", "3",
     ":", "return", "String", ";", "1", ":", "if", "(", "obj", "in", "1", "||", "obj", "<=", "4", ")", "return",
     "Class", ";", "return", "Object", ";", "}", "rfalse", ";", "]" >>

Veneer_CP__Tab ==
  << "x", "id", "n", "l", ";", "#", "ifv3", ";", "while", "(", "1", ")", "{", "n", "=", "x", "->", "0", ";",
     "if", "(", "n", "==", "0", ")", "break", ";", "x", "++", ";", "if", "(", "id", "==", "(", "n", "&", "$1f",
     ")", ")", "return", "x", ";", "l", "=", "(", "n", "/", "$20", ")", "+", "1", ";", "x", "=", "x", "+", "l",
     ";", "}", "#", "ifnot", ";", "while", "(", "(", "n", "=", "0", "->", "x", ")", "~=", "0", ")", "{", "if",
     "(", "n", "&", "$80", ")", "{", "x", "++", ";", "l", "=", "(", "0", "->", "x", ")", "&", "$3f", ";", "}",
     "else", "{", "if", "(", "n", "&", "$40", ")", "l", "=", "2", ";", "else", "l", "=", "1", ";", "}", "x",
     "++", ";", "if", "(", "(", "n", "&", "$3f", ")", "==", "id", ")", "return", "x", ";", "x", "=", "x", "+",
     "l", ";", "}", "#", "endif", ";", "if", "(", "id", "<", "0", ")", "return", "x", "+", "1", ";", "rfalse",
     ";", "]" >>

Veneer_Cl__Ms ==
  << "obj", "id", "y", "a", "b", "c", "d", "x", ";", "#", "ifv3", ";", "#", "message", "error",
     "''Class messages are not supported in v3.''", ";", "obj", "=", "id", "=", "y", "=", "a", "=", "b", "=",
     "c", "=", "d", "=", "x", "=", "0", ";", "#", "ifnot", ";", "switch", "(", "id", ")", "{", "create", ":",
     "if", "(", "children", "(", "obj", ")", "<=", "1", ")", "rfalse", ";", "x", "=", "child", "(", "obj", ")",
     ";", "remove", "x", ";", "if", "(", "x", "provides", "create", ")", "{", "if", "(", "y", "==", "0", ")",
     "x", "..", "create", "(", ")", ";", "if", "(", "y", "==", "1", ")", "x", "..", "create", "(", "a", ")",
     ";", "if", "(", "y", "==", "2", ")", "x", "..", "create", "(", "a", ",", "b", ")", ";", "if", "(", "y",
     ">", "3", ")", "RT__Err", "(", "1", ",", "obj", ")", ";", "if", "(", "y", ">=", "3", ")", "x", "..",
     "create", "(", "a", ",", "b", ",", "c", ")", ";", "}", "return", "x", ";", "recreate", ":", "if", "(",
     "~~", "(", "a", "ofclass", "obj", ")", ")", "{", "RT__Err", "(", "''recreate''", ",", "a", ",", "-", "obj",
     ")", ";", "rfalse", ";", "}", "Copy__Primitive", "(", "a", ",", "child", "(", "obj", ")", ")", ";", "if",
     "(", "a", "provides", "create", ")", "{", "if", "(", "y", "==", "1", ")", "a", "..", "create", "(", ")",
     ";", "if", "(", "y", "==", "2", ")", "a", "..", "create", "(", "b", ")", ";", "if", "(", "y", "==", "3",
     ")", "a", "..", "create", "(", "b", ",", "c", ")", ";", "if", "(", "y", ">", "4", ")", "RT__Err", "(", "1",
     ",", "obj", ")", ";", "if", "(", "y", ">=", "4", ")", "a", "..", "create", "(", "b", ",", "c", ",", "d",
     ")", ";", "}", "rfalse", ";", "destroy", ":", "if", "(", "~~", "(", "a", "ofclass", "obj", ")", ")", "{",
     "RT__Err", "(", "''destroy''", ",", "a", ",", "-", "obj", ")", ";", "rfalse", ";", "}", "if", "(", "a",
     "provides", "destroy", ")", "a", "..", "destroy", "(", ")", ";", "Copy__Primitive", "(", "a", ",", "child",
     "(", "obj", ")", ")", ";", "move", "a", "to", "obj", ";", "rfalse", ";", "remaining", ":", "return",
     "children", "(", "obj", ")", "-", "1", ";", "copy", ":", "if", "(", "~~", "(", "a", "ofclass", "obj", ")",
     ")", "{", "RT__Err", "(", "''copy''", ",", "a", ",", "-", "obj", ")", ";", "rfalse", ";", "}", "if", "(",
     "~~", "(", "b", "ofclass", "obj", ")", ")", "{", "RT__Err", "(", "''copy''", ",", "b", ",", "-", "obj",
     ")", ";", "rfalse", ";", "}", "Copy__Primitive", "(", "a", ",", "b", ")", ";", "rfalse", ";", "}", "#",
     "endif", ";", "]" >>

Veneer_RT__ChT ==
  << "obj1", "obj2", "x", ";", "if", "(", "obj1", "<", "5", "||", "obj1", ">", "(", "#", "largest_object", "-",
     "255", ")", "||", "obj1", "in", "1", ")", "return", "RT__Err", "(", "16", ",", "obj1", ",", "obj2", ")",
     ";", "if", "(", "obj2", "<", "5", "||", "obj2", ">", "(", "#", "largest_object", "-", "255", ")", "||",
     "obj2", "in", "1", ")", "return", "RT__Err", "(", "17", ",", "obj1", ",", "obj2", ")", ";", "x", "=",
     "obj2", ";", "while", "(", "x", "~=", "0", ")", "{", "if", "(", "x", "==", "obj1", ")", "return",
     "RT__Err", "(", "18", ",", "obj1", ",", "obj2", ")", ";", "x", "=", "parent", "(", "x", ")", ";", "}", "#",
     "ifdef", "INFIX", ";", "if", "(", "obj1", "has", "infix__watching", "||", "obj2", "has", "infix__watching",
     "||", "(", "debug_flag", "&", "15", ")", ")", "print", "''[Moving ''", ",", "(", "name", ")", "obj1", ",",
     "'' to ''", ",", "(", "name", ")", "obj2", ",", "'']^''", ";", "#", "ifnot", ";", "#", "ifdef", "DEBUG",
     ";", "if", "(", "debug_flag", "&", "15", ")", "print", "''[Moving ''", ",", "(", "name", ")", "obj1", ",",
     "'' to ''", ",", "(", "name", ")", "obj2", ",", "'']^''", ";", "#", "endif", ";", "#", "endif", ";", "@",
     "insert_obj", "obj1", "obj2", ";", "]" >>

Veneer_RT__ChR ==
  << "obj1", ";", "if", "(", "obj1", "<", "5", "||", "obj1", ">", "(", "#", "largest_object", "-", "255", ")",
     "||", "obj1", "in", "1", ")", "return", "RT__Err", "(", "15", ",", "obj1", ")", ";", "#", "ifdef", "INFIX",
     ";", "if", "(", "obj1", "has", "infix__watching", "||", "(", "debug_flag", "&", "15", ")", ")", "print",
     "''[Removing ''", ",", "(", "name", ")", "obj1", ",", "'']^''", ";", "#", "ifnot", ";", "#", "ifdef",
     "DEBUG", ";", "if", "(", "debug_flag", "&", "15", ")", "print", "''[Removing ''", ",", "(", "name", ")",
     "obj1", ",", "'']^''", ";", "#", "endif", ";", "#", "endif", ";", "@", "remove_obj", "obj1", ";", "]" >>

Veneer_RT__ChG ==
  << "obj1", "a", ";", "if", "(", "obj1", "<", "5", "||", "obj1", ">", "(", "#", "largest_object", "-", "255",
     ")", "||", "obj1", "in", "1", ")", "return", "RT__Err", "(", "14", ",", "obj1", ")", ";", "if", "(", "a",
     "<", "0", "||", "a", ">=", "48", ")", "return", "RT__Err", "(", "19", ",", "obj1", ")", ";", "if", "(",
     "obj1", "has", "a", ")", "return", ";", "#", "ifdef", "INFIX", ";", "if", "(", "a", "~=", "workflag", "&&",
     "(", "obj1", "has", "infix__watching", "||", "(", "debug_flag", "&", "15", ")", ")", ")", "print",
     "''[Giving ''", ",", "(", "name", ")", "obj1", ",", "'' ''", ",", "(", "DebugAttribute", ")", "a", ",",
     "'']^''", ";", "#", "ifnot", ";", "#", "ifdef", "DEBUG", ";", "if", "(", "a", "~=", "workflag", "&&",
     "debug_flag", "&", "15", ")", "print", "''[Giving ''", ",", "(", "name", ")", "obj1", ",", "'' ''", ",",
     "(", "DebugAttribute", ")", "a", ",", "'']^''", ";", "#", "endif", ";", "#", "endif", ";", "@", "set_attr",
     "obj1", "a", ";", "]" >>

Veneer_RT__ChGt ==
  << "obj1", "a", ";", "if", "(", "obj1", "<", "5", "||", "obj1", ">", "(", "#", "largest_object", "-", "255",
     ")", "||", "obj1", "in", "1", ")", "return", "RT__Err", "(", "14", ",", "obj1", ")", ";", "if", "(", "a",
     "<", "0", "||", "a", ">=", "48", ")", "return", "RT__Err", "(", "19", ",", "obj1", ")", ";", "if", "(",
     "obj1", "hasnt", "a", ")", "return", ";", "#", "ifdef", "INFIX", ";", "if", "(", "a", "~=", "workflag",
     "&&", "(", "obj1", "has", "infix__watching", "||", "(", "debug_flag", "&", "15", ")", ")", ")", "print",
     "''[Giving ''", ",", "(", "name", ")", "obj1", ",", "'' @@126''", ",", "(", "DebugAttribute", ")", "a",
     ",", "'']^''", ";", "#", "ifnot", ";", "#", "ifdef", "DEBUG", ";", "if", "(", "a", "~=", "workflag", "&&",
     "debug_flag", "&", "15", ")", "print", "''[Giving ''", ",", "(", "name", ")", "obj1", ",", "'' @@126''",
     ",", "(", "DebugAttribute", ")", "a", ",", "'']^''", ";", "#", "endif", ";", "#", "endif", ";", "@",
     "clear_attr", "obj1", "a", ";", "]" >>

Veneer_RT__ChPS ==
  << "obj", "prop", "val", "size", ";", "if", "(", "obj", "<", "5", "||", "obj", ">", "(", "#",
     "largest_object", "-", "255", ")", "||", "obj", "in", "1", "||", "obj", ".&", "prop", "==", "0", "||", "(",
     "size", "=", "obj", ".#", "prop", ")", ">", "2", ")", "return", "RT__Err", "(", "''set''", ",", "obj", ",",
     "prop", ",", "size", ")", ";", "@", "put_prop", "obj", "prop", "val", ";", "#", "ifdef", "INFIX", ";",
     "if", "(", "obj", "has", "infix__watching", "||", "(", "debug_flag", "&", "15", ")", ")", "RT__TrPS", "(",
     "obj", ",", "prop", ",", "val", ")", ";", "#", "ifnot", ";", "#", "ifdef", "DEBUG", ";", "if", "(",
     "debug_flag", "&", "15", ")", "RT__TrPS", "(", "obj", ",", "prop", ",", "val", ")", ";", "#", "endif", ";",
     "#", "endif", ";", "return", "val", ";", "]" >>

Veneer_RT__ChPR ==
  << "obj", "prop", "val", "size", ";", "if", "(", "obj", "<", "5", "||", "obj", ">", "(", "#",
     "largest_object", "-", "255", ")", "||", "(", "size", "=", "obj", ".#", "prop", ")", ">", "2", ")", "{",
     "RT__Err", "(", "''read''", ",", "obj", ",", "prop", ",", "size", ")", ";", "obj", "=", "2", ";", "}", "@",
     "get_prop", "obj", "prop", "->", "val", ";", "return", "val", ";", "]" >>

Veneer_RT__TrPS ==
  << "obj", "prop", "val", ";", "print", "''[Setting ''", ",", "(", "name", ")", "obj", ",", "''.''", ",", "(",
     "property", ")", "prop", ",", "'' to ''", ",", "val", ",", "'']^''", ";", "]" >>

Veneer_RT__ChLDB ==
  << "base", "offset", "a", "val", ";", "a", "=", "base", "+", "offset", ";", "if", "(", "Unsigned__Compare",
     "(", "a", ",", "#", "readable_memory_offset", ")", ">=", "0", ")", "return", "RT__Err", "(", "24", ")",
     ";", "@", "loadb", "base", "offset", "->", "val", ";", "return", "val", ";", "]" >>

Veneer_RT__ChLDW ==
  << "base", "offset", "a", "val", ";", "a", "=", "base", "+", "2", "*", "offset", ";", "if", "(",
     "Unsigned__Compare", "(", "a", ",", "#", "readable_memory_offset", ")", ">=", "0", ")", "return",
     "RT__Err", "(", "25", ")", ";", "@", "loadw", "base", "offset", "->", "val", ";", "return", "val", ";",
     "]" >>

Veneer_RT__ChSTB ==
  << "base", "offset", "val", "a", "f", ";", "a", "=", "base", "+", "offset", ";", "if", "(",
     "Unsigned__Compare", "(", "a", ",", "#", "array__start", ")", ">=", "0", "&&", "Unsigned__Compare", "(",
     "a", ",", "#", "array__end", ")", "<", "0", ")", "f", "=", "1", ";", "else", "if", "(",
     "Unsigned__Compare", "(", "a", ",", "#", "cpv__start", ")", ">=", "0", "&&", "Unsigned__Compare", "(", "a",
     ",", "#", "cpv__end", ")", "<", "0", ")", "f", "=", "1", ";", "else", "if", "(", "Unsigned__Compare", "(",
     "a", ",", "#", "ipv__start", ")", ">=", "0", "&&", "Unsigned__Compare", "(", "a", ",", "#", "ipv__end",
     ")", "<", "0", ")", "f", "=", "1", ";", "else", "if", "(", "a", "==", "$0011", ")", "f", "=", "1", ";",
     "if", "(", "f", "==", "0", ")", "return", "RT__Err", "(", "26", ")", ";", "@", "storeb", "base", "offset",
     "val", ";", "]" >>

Veneer_RT__ChSTW ==
  << "base", "offset", "val", "a", "f", ";", "a", "=", "base", "+", "2", "*", "offset", ";", "if", "(",
     "Unsigned__Compare", "(", "a", ",", "#", "array__start", ")", ">=", "0", "&&", "Unsigned__Compare", "(",
     "a", ",", "#", "array__end", ")", "<", "0", ")", "f", "=", "1", ";", "else", "if", "(",
     "Unsigned__Compare", "(", "a", ",", "#", "cpv__start", ")", ">=", "0", "&&", "Unsigned__Compare", "(", "a",
     ",", "#", "cpv__end", ")", "<", "0", ")", "f", "=", "1", ";", "else", "if", "(", "Unsigned__Compare", "(",
     "a", ",", "#", "ipv__start", ")", ">=", "0", "&&", "Unsigned__Compare", "(", "a", ",", "#", "ipv__end",
     ")", "<", "0", ")", "f", "=", "1", ";", "else", "if", "(", "a", "==", "$0010", ")", "f", "=", "1", ";",
     "if", "(", "f", "==", "0", ")", "return", "RT__Err", "(", "27", ")", ";", "@", "storew", "base", "offset",
     "val", ";", "]" >>

Veneer_RT__ChPrintC ==
  << "c", "fl", ";", "if", "(", "c", "==", "0", "or", "9", "or", "11", "or", "13", ")", "fl", "=", "1", ";",
     "if", "(", "c", ">=", "32", "&&", "c", "<=", "126", ")", "fl", "=", "1", ";", "if", "(", "c", ">=", "155",
     "&&", "c", "<=", "251", ")", "fl", "=", "1", ";", "if", "(", "fl", "==", "0", ")", "return", "RT__Err",
     "(", "33", ",", "c", ")", ";", "@", "print_char", "c", ";", "]" >>

Veneer_RT__ChPrintA ==
  << "a", ";", "if", "(", "Unsigned__Compare", "(", "a", ",", "#", "readable_memory_offset", ")", ">=", "0",
     ")", "return", "RT__Err", "(", "34", ")", ";", "@", "print_addr", "a", ";", "]" >>

Veneer_RT__ChPrintS ==
  << "a", ";", "if", "(", "Z__Region", "(", "a", ")", "~=", "3", ")", "return", "RT__Err", "(", "35", ")", ";",
     "@", "print_paddr", "a", ";", "]" >>

Veneer_RT__ChPrintO ==
  << "a", ";", "if", "(", "Z__Region", "(", "a", ")", "~=", "1", ")", "return", "RT__Err", "(", "36", ")", ";",
     "@", "print_obj", "a", ";", "]" >>

VeneerSource ==
  "Box__Routine" :> Veneer_Box__Routine @@ "R_Process" :> Veneer_R_Process @@
  "DefArt" :> Veneer_DefArt @@ "InDefArt" :> Veneer_InDefArt @@
  "CDefArt" :> Veneer_CDefArt @@ "CInDefArt" :> Veneer_CInDefArt @@
  "PrintShortName" :> Veneer_PrintShortName @@ "EnglishNumber" :> Veneer_EnglishNumber @@
  "Print__PName" :> Veneer_Print__PName @@ "WV__Pr" :> Veneer_WV__Pr @@
  "RV__Pr" :> Veneer_RV__Pr @@ "CA__Pr" :> Veneer_CA__Pr @@
  "IB__Pr" :> Veneer_IB__Pr @@ "IA__Pr" :> Veneer_IA__Pr @@
  "DB__Pr" :> Veneer_DB__Pr @@ "DA__Pr" :> Veneer_DA__Pr @@
  "RA__Pr" :> Veneer_RA__Pr @@ "RL__Pr" :> Veneer_RL__Pr @@
  "RA__Sc" :> Veneer_RA__Sc @@ "OP__Pr" :> Veneer_OP__Pr @@
  "OC__Cl" :> Veneer_OC__Cl @@ "Copy__Primitive" :> Veneer_Copy__Primitive @@
  "RT__Err" :> Veneer_RT__Err @@ "Z__Region" :> Veneer_Z__Region @@
  "Unsigned__Compare" :> Veneer_Unsigned__Compare @@ "Meta__class" :> Veneer_Meta__class @@
  "CP__Tab" :> Veneer_CP__Tab @@ "Cl__Ms" :> Veneer_Cl__Ms @@
  "RT__ChT" :> Veneer_RT__ChT @@ "RT__ChR" :> Veneer_RT__ChR @@
  "RT__ChG" :> Veneer_RT__ChG @@ "RT__ChGt" :> Veneer_RT__ChGt @@
  "RT__ChPS" :> Veneer_RT__ChPS @@ "RT__ChPR" :> Veneer_RT__ChPR @@
  "RT__TrPS" :> Veneer_RT__TrPS @@ "RT__ChLDB" :> Veneer_RT__ChLDB @@
  "RT__ChLDW" :> Veneer_RT__ChLDW @@ "RT__ChSTB" :> Veneer_RT__ChSTB @@
  "RT__ChSTW" :> Veneer_RT__ChSTW @@ "RT__ChPrintC" :> Veneer_RT__ChPrintC @@
  "RT__ChPrintA" :> Veneer_RT__ChPrintA @@ "RT__ChPrintS" :> Veneer_RT__ChPrintS @@
  "RT__ChPrintO" :> Veneer_RT__ChPrintO
=============================================================================
