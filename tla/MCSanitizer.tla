------------------------------ MODULE MCSanitizer ------------------------------
\* Small inputs for Sanitizer.
EXTENDS Sanitizer

TextsOver(alphabet, max) == UNION {[1..n -> alphabet] : n \in 0..max}

\* The first imperative, hidden characters, and roles on two lines.
FirstVerbAndRoles == {"ig", "nore", "ins", "system", "newline", "blank", "hidden", ":"}
\* The second imperative, with its qualifier.
SecondVerb == {"over", "ride", "prompt", "system", "blank", "hidden"}

MCOutputs == TextsOver(FirstVerbAndRoles, 5) \cup TextsOver(SecondVerb, 6) \cup {NotText}
=============================================================================
